---- MODULE Spec2Model ----
(***************************************************************************)
(* Session registry and operation funnel of lighter-go's host bindings:    *)
(* the native-mobile core (package mobile) and the browser core            *)
(* (sharedlib_wasm.go).  Both keep a process-wide registry made of the     *)
(* active client `txClient` and the slot table `backupTxClients`.          *)
(***************************************************************************)
EXTENDS Integers, Sequences, FiniteSets, Bags, TLC

\* ------------------------------------------------------------------ bounds
MaxSessions == 3   \* number of *client.TxClient values ever allocated
MaxSlot     == 1   \* the highest in-range API key index a host passes
MaxAccount  == 1   \* the positive account index a host passes
MaxNonce    == 0   \* nonces a host passes are -2..MaxNonce
MaxNow      == 1   \* times the wall clock advances between operations
MaxOrders   == 2   \* sub-orders in one grouped-orders document
MaxThreads  == 2   \* host threads that call into the mobile core at once

\* uint8(apiKeyIndex): the width of the session's API-key slot
Uint8Mod == 256

Uint8(n) == n % Uint8Mod

\* API key indexes a host passes: two in-range ones and one beyond uint8,
\* which uint8() narrows to 0
SlotArgs    == {0, MaxSlot, Uint8Mod}
\* account indexes a host passes: a negative one, zero and a positive one
AccountArgs == {-1, 0, MaxAccount}
PrivateKeys == {"sk1", "malformed"}

VARIABLES
  core,             \* which core this process runs: "mobile" or "wasm"
  txClient,         \* the active client (NilClient when unset)
  backupTxClients,  \* slot table: API key index -> client
  nextId,           \* address of the next allocated client
  opened,           \* history: some CreateClient has succeeded
  lastSwitch,       \* history: <<k>> while the last registry operation is a
                    \* successful switch to slot k (only builders ran since)
  now,              \* the wall clock time.Now() reads, in milliseconds
  ret,              \* the last operation, its inputs and what the host got
  call,             \* the signing-engine call the last operation made, if any
  threads,          \* host threads inside an operation: where each one is
                    \* and what it holds in its locals
  twin              \* the registry and last result of a wasm core that is fed
                    \* the calls the mobile core (txClient, ...) is fed

vars == <<core, txClient, backupTxClients, nextId, opened, lastSwitch, now, ret,
          call, threads, twin>>

\* ------------------------------------------------------------ value shapes
\* the nil *client.TxClient
NilClient == [id |-> 0, apiKeyIndex |-> 0, accountIndex |-> 0, privateKey |-> ""]

\* a nil map and an empty map read alike
EmptyMap == [k \in {} |-> NilClient]

\* m[k] = v of a Go map
MapSet(m, k, v) == [x \in (DOMAIN m) \cup {k} |-> IF x = k THEN v ELSE m[x]]

\* v := m[k] of a Go map: the zero value when k is absent
MapGet(m, k) == IF k \in DOMAIN m THEN m[k] ELSE NilClient

\* What an operation hands back.  isNil: a nil pointer / nil interface.
\* keys: the fields the envelope carries.  JSON is <<>> for the empty string.
Result(keys, isNil, err, json, priv, pub) ==
  [keys |-> keys, isNil |-> isNil, Error |-> err, JSON |-> json,
   PrivateKey |-> priv, PublicKey |-> pub]

NoCall == <<>>

\* What an operation leaves behind: the registry, the value handed to the
\* host, whether a panic was recovered on the way, and the engine call made.
Out(tc, btc, res, panicked, c) ==
  [txClient |-> tc, backupTxClients |-> btc, res |-> res,
   panicked |-> panicked, call |-> c]

\* ------------------------------------------------- external collaborators
\* client.NewTxClient: a fresh client bound to the key, or (nil, err) for
\* key material the signing engine rejects.
NewTxClient(id, privateKey, accountIndex, apiKeyIndex) ==
  IF privateKey = "malformed"
  THEN [client |-> NilClient, err |-> "invalid private key"]
  ELSE [client |-> [id |-> id, apiKeyIndex |-> apiKeyIndex,
                    accountIndex |-> accountIndex, privateKey |-> privateKey],
        err |-> ""]

\* GetKeyManager().PubKeyBytes(): the public key derived from the private key
PubKeyBytes(c) == "pub-" \o c.privateKey

\* hexutil.Encode(b): the hex digits behind a "0x" prefix
hexutilEncode(b) == "0x" \o b

\* strings.Replace(s, old, "", 1): s without the first occurrence of old
stringsReplace(s, old) ==
  LET n    == Len(old)
      hits == {i \in 1 .. (Len(s) - n + 1) : SubSeq(s, i, i + n - 1) = old}
  IN IF hits = {} THEN s
     ELSE LET i == CHOOSE h \in hits : \A g \in hits : h <= g
          IN SubSeq(s, 1, i - 1) \o SubSeq(s, i + n, Len(s))

\* what HTTP().GetApiKey can come back with: an error, or a list of keys
\* registered on the venue (the server may answer with an empty list)
RemoteReplies ==
  { [err |-> "timeout", ApiKeys |-> <<>>],
    [err |-> "", ApiKeys |-> <<>>],
    [err |-> "", ApiKeys |-> <<"pub-sk1">>],
    [err |-> "", ApiKeys |-> <<"pub-other">>],
    [err |-> "", ApiKeys |-> <<"0xpub-sk1">>] }

\* ------------------------------------------------ mobile core: registry
\* a string handed back by a mobile registry operation
MobileStr(s) == Result({"string"}, FALSE, s, <<>>, "", "")

\* CreateClient that forgets to register the new client in the slot table
CreateClient_noInsert(tc, btc, id, privateKey, apiKeyIndex, accountIndex) ==
  IF accountIndex <= 0
  THEN Out(tc, btc, MobileStr("invalid account index"), FALSE, NoCall)
  ELSE LET n == NewTxClient(id, privateKey, accountIndex, Uint8(apiKeyIndex))
       IN IF n.err # ""
          THEN Out(n.client, btc,
                   MobileStr("error occurred when creating TxClient. err: " \o n.err),
                   FALSE, NoCall)
          ELSE Out(n.client, btc, MobileStr(""), FALSE, NoCall)

\* CreateClient that files the client under the narrowed (uint8) index
CreateClient_narrowKey(tc, btc, id, privateKey, apiKeyIndex, accountIndex) ==
  IF accountIndex <= 0
  THEN Out(tc, btc, MobileStr("invalid account index"), FALSE, NoCall)
  ELSE LET n == NewTxClient(id, privateKey, accountIndex, Uint8(apiKeyIndex))
       IN IF n.err # ""
          THEN Out(n.client, btc,
                   MobileStr("error occurred when creating TxClient. err: " \o n.err),
                   FALSE, NoCall)
          ELSE Out(n.client, MapSet(btc, Uint8(apiKeyIndex), n.client),
                   MobileStr(""), FALSE, NoCall)

\* func CreateClient(url, privateKey, chainId, apiKeyIndex, accountIndex) string
\* id: the address the new client gets
CreateClient(tc, btc, id, privateKey, apiKeyIndex, accountIndex) ==
  IF accountIndex <= 0
  THEN Out(tc, btc, MobileStr("invalid account index"), FALSE, NoCall)
  ELSE LET n   == NewTxClient(id, privateKey, accountIndex, Uint8(apiKeyIndex))
           tc1 == n.client   \* txClient, err = client.NewTxClient(...)
       IN IF n.err # ""
          THEN Out(tc1, btc,
                   MobileStr("error occurred when creating TxClient. err: " \o n.err),
                   FALSE, NoCall)
          ELSE Out(tc1, MapSet(btc, apiKeyIndex, tc1), MobileStr(""), FALSE, NoCall)

\* func CheckClient(apiKeyIndex int, accountIndex int64) string
CheckClient(tc, btc, apiKeyIndex, accountIndex, reply) ==
  IF apiKeyIndex \notin DOMAIN btc
  THEN Out(tc, btc, MobileStr("api key not registered"), FALSE, NoCall)
  ELSE LET client == btc[apiKeyIndex] IN
    IF client.apiKeyIndex # Uint8(apiKeyIndex)
    THEN Out(tc, btc, MobileStr("apiKeyIndex does not match. expected "
               \o ToString(client.apiKeyIndex) \o " but got " \o ToString(apiKeyIndex)),
             FALSE, NoCall)
    ELSE IF client.accountIndex # accountIndex
    THEN Out(tc, btc, MobileStr("accountIndex does not match. expected "
               \o ToString(client.accountIndex) \o " but got " \o ToString(accountIndex)),
             FALSE, NoCall)
    ELSE IF reply.err # ""
    THEN Out(tc, btc, MobileStr("failed to get Api Keys. err: " \o reply.err),
             FALSE, NoCall)
    ELSE IF Len(reply.ApiKeys) = 0
    THEN \* key.ApiKeys[0] panics; recover() returns the zero value ""
         Out(tc, btc, MobileStr(""), TRUE, NoCall)
    ELSE LET pubKeyStr == stringsReplace(hexutilEncode(PubKeyBytes(client)), "0x")
             ak        == reply.ApiKeys[1]
         IN IF ak # pubKeyStr
            THEN Out(tc, btc, MobileStr(
                       "private key does not match the one on Lighter. ownPubKey: "
                       \o pubKeyStr \o " response: " \o ak), FALSE, NoCall)
            ELSE Out(tc, btc, MobileStr(""), FALSE, NoCall)

\* SwitchAPIKey that takes the client out of the map when it activates it
SwitchAPIKey_evict(tc, btc, apiKeyIndex) ==
  LET tc1 == MapGet(btc, apiKeyIndex)
  IN IF tc1 = NilClient
     THEN Out(tc1, btc, MobileStr("no client initialized for api key"), FALSE, NoCall)
     ELSE Out(tc1, [k \in DOMAIN btc \ {apiKeyIndex} |-> btc[k]],
              MobileStr(""), FALSE, NoCall)

\* func SwitchAPIKey(apiKeyIndex int) string
SwitchAPIKey(tc, btc, apiKeyIndex) ==
  LET tc1 == MapGet(btc, apiKeyIndex)   \* txClient = backupTxClients[apiKeyIndex]
  IN IF tc1 = NilClient
     THEN Out(tc1, btc, MobileStr("no client initialized for api key"), FALSE, NoCall)
     ELSE Out(tc1, btc, MobileStr(""), FALSE, NoCall)

\* -------------------------------------------------- wasm core: registry
\* js.ValueOf(map[string]interface{}{"err": ...}); a nil "err" is the empty string
WasmErr(s) == Result({"err"}, FALSE, s, <<>>, "", "")

\* a recovered panic leaves the handler's interface{} result nil: JS null
WasmNull == Result({}, TRUE, "", <<>>, "", "")

\* createClient that rejects only negative account indexes
createClient_negOnly(tc, btc, id, argc, privateKey, apiKeyArg, accountIndex) ==
  IF argc < 5
  THEN Out(tc, btc, WasmErr("insufficient arguments"), FALSE, NoCall)
  ELSE LET apiKeyIndex == Uint8(apiKeyArg) IN
    IF accountIndex < 0
    THEN Out(tc, btc, WasmErr("invalid account index"), FALSE, NoCall)
    ELSE LET n == NewTxClient(id, privateKey, accountIndex, apiKeyIndex)
         IN IF n.err # ""
            THEN Out(n.client, btc, WasmErr(n.err), FALSE, NoCall)
            ELSE Out(n.client, MapSet(btc, apiKeyIndex, n.client), WasmErr(""),
                     FALSE, NoCall)

\* func createClient(this js.Value, args []js.Value) interface{}
createClient(tc, btc, id, argc, privateKey, apiKeyArg, accountIndex) ==
  IF argc < 5
  THEN Out(tc, btc, WasmErr("insufficient arguments"), FALSE, NoCall)
  ELSE LET apiKeyIndex == Uint8(apiKeyArg) IN
    IF accountIndex <= 0
    THEN Out(tc, btc, WasmErr("invalid account index"), FALSE, NoCall)
    ELSE LET n   == NewTxClient(id, privateKey, accountIndex, apiKeyIndex)
             tc1 == n.client
         IN IF n.err # ""
            THEN Out(tc1, btc, WasmErr(n.err), FALSE, NoCall)
            ELSE Out(tc1, MapSet(btc, apiKeyIndex, tc1), WasmErr(""), FALSE, NoCall)

\* func checkClient(this js.Value, args []js.Value) interface{}
checkClient(tc, btc, argc, apiKeyArg, accountIndex, reply) ==
  IF argc < 2
  THEN Out(tc, btc, WasmErr("insufficient arguments"), FALSE, NoCall)
  ELSE LET apiKeyIndex == Uint8(apiKeyArg) IN
    IF apiKeyIndex \notin DOMAIN btc
    THEN Out(tc, btc, WasmErr("api key not registered"), FALSE, NoCall)
    ELSE LET client == btc[apiKeyIndex] IN
      IF client.apiKeyIndex # apiKeyIndex
      THEN Out(tc, btc, WasmErr("apiKeyIndex does not match. expected "
                 \o ToString(client.apiKeyIndex) \o " but got " \o ToString(apiKeyIndex)),
               FALSE, NoCall)
      ELSE IF client.accountIndex # accountIndex
      THEN Out(tc, btc, WasmErr("accountIndex does not match. expected "
                 \o ToString(client.accountIndex) \o " but got " \o ToString(accountIndex)),
               FALSE, NoCall)
      ELSE IF reply.err # ""
      THEN Out(tc, btc, WasmErr("failed to get Api Keys. err: " \o reply.err),
               FALSE, NoCall)
      ELSE IF Len(reply.ApiKeys) = 0
      THEN Out(tc, btc, WasmNull, TRUE, NoCall)
      ELSE LET pubKeyStr == stringsReplace(hexutilEncode(PubKeyBytes(client)), "0x")
               ak        == reply.ApiKeys[1]
           IN IF ak # pubKeyStr
              THEN Out(tc, btc, WasmErr(
                         "private key does not match the one on Lighter. ownPubKey: "
                         \o pubKeyStr \o " response: " \o ak), FALSE, NoCall)
              ELSE Out(tc, btc, WasmErr(""), FALSE, NoCall)

\* switchAPIKey that finds the client but never makes it the active one
switchAPIKey_noAssign(tc, btc, argc, apiKeyArg) ==
  IF argc < 1
  THEN Out(tc, btc, WasmErr("insufficient arguments"), FALSE, NoCall)
  ELSE IF Uint8(apiKeyArg) \notin DOMAIN btc
  THEN Out(tc, btc, WasmErr("api key not registered"), FALSE, NoCall)
  ELSE Out(tc, btc, WasmErr(""), FALSE, NoCall)

\* func switchAPIKey(this js.Value, args []js.Value) interface{}
switchAPIKey(tc, btc, argc, apiKeyArg) ==
  IF argc < 1
  THEN Out(tc, btc, WasmErr("insufficient arguments"), FALSE, NoCall)
  ELSE LET apiKeyIndex == Uint8(apiKeyArg) IN
    IF apiKeyIndex \notin DOMAIN btc
    THEN Out(tc, btc, WasmErr("api key not registered"), FALSE, NoCall)
    ELSE Out(btc[apiKeyIndex], btc, WasmErr(""), FALSE, NoCall)

\* ------------------------------------------------- integer widths, clock
Uint16Mod == 65536
Uint16(n) == n % Uint16Mod

\* uint32(n): the arguments the model passes are in 0 .. 2^31 - 1, where the
\* conversion keeps the value (2^32 is beyond the checker's integers)
Uint32(n) == n

\* Time quantities are kept in units of 100 (of milliseconds or of seconds),
\* so that now + 28 days stays within the checker's integers.
\* time.Hour, in milliseconds
HourMs == 36000
Days28Ms == HourMs * 24 * 28
Hours7Ms == HourMs * 7

\* t.UnixMilli() and t.Unix() of a time t kept in milliseconds
UnixMilli(t) == t
Unix(t)      == t \div 1000

\* ---------------------------------------------------- the signing engine
EngineOutcomes == {"ok", "err", "panic"}

\* a variant that treats every negative nonce as absent
TransactOpts_negAbsent(nonce) == [Nonce |-> IF nonce >= 0 THEN <<nonce>> ELSE <<>>]

\* ops := new(types.TransactOpts); if nonce != -1 { ops.Nonce = &nonce }
TransactOpts(nonce) == [Nonce |-> IF nonce # -1 THEN <<nonce>> ELSE <<>>]

\* the call a handler makes on its client: txClient.Get...Transaction(req, ops)
EngineCall(handle, method, req, ops) ==
  <<[handle |-> handle, method |-> method, req |-> req, ops |-> ops]>>

\* the signed transaction the engine returns for a call
SignedTx(c) == [method |-> c[1].method, signer |-> c[1].handle.id,
                req |-> c[1].req, ops |-> c[1].ops]

\* tx.GetL1SignatureBody() of a signed transaction
GetL1SignatureBody(tx) == "l1-body-of-" \o tx.method

\* json.Marshal(tx): the document of a transaction (no auxiliary field)
MarshalTx(tx) == <<[tx |-> tx, MessageToSign |-> <<>>]>>

\* json.Marshal(tx), json.Unmarshal into obj, obj["MessageToSign"] = body,
\* json.Marshal(obj)
MarshalWithMessage(tx) ==
  <<[tx |-> tx, MessageToSign |-> <<GetL1SignatureBody(tx)>>]>>

EngineErr == "engine rejected the request"

\* ------------------------------------------------- mobile core: builders
\* &TxResult{Error: e} and &TxResult{JSON: j, Error: ""}
TxErr(e) == Result({"JSON", "Error"}, FALSE, e, <<>>, "", "")
TxOk(j)  == Result({"JSON", "Error"}, FALSE, "", j, "", "")

\* the nil *TxResult / *APIKeyResult a recovered panic leaves
NilResult == Result({}, TRUE, "", <<>>, "", "")

MobileStateErr == "client is not created, call CreateClient() first"

\* a variant that gives up the active client when the engine returns an error
MobileSubmit_dropOnErr(tc, btc, method, req, nonce, eng, withMessage) ==
  LET c  == EngineCall(tc, method, req, TransactOpts(nonce))
      tx == SignedTx(c)
  IN CASE eng = "panic" -> Out(tc, btc, NilResult, TRUE, c)
       [] eng = "err"   -> Out(NilClient, btc, TxErr(EngineErr), FALSE, c)
       [] OTHER         -> Out(tc, btc,
                               TxOk(IF withMessage THEN MarshalWithMessage(tx)
                                                   ELSE MarshalTx(tx)),
                               FALSE, c)

\* tx, err := txClient.GetXTransaction(txInfo, ops) and what follows it
MobileSubmit(tc, btc, method, req, nonce, eng, withMessage) ==
  LET c  == EngineCall(tc, method, req, TransactOpts(nonce))
      tx == SignedTx(c)
  IN CASE eng = "panic" -> Out(tc, btc, NilResult, TRUE, c)
       [] eng = "err"   -> Out(tc, btc, TxErr(EngineErr), FALSE, c)
       [] OTHER         -> Out(tc, btc,
                               TxOk(IF withMessage THEN MarshalWithMessage(tx)
                                                   ELSE MarshalTx(tx)),
                               FALSE, c)

HexDigits == {"0", "1", "2", "3", "4", "5", "6", "7", "8", "9",
              "a", "b", "c", "d", "e", "f", "A", "B", "C", "D", "E", "F"}

\* hexutil.Decode(input): the digits behind "0x", two per byte
hexutilDecode(input) ==
  IF Len(input) = 0 THEN [err |-> "empty hex string", bytes |-> ""]
  ELSE IF Len(input) < 2 \/ SubSeq(input, 1, 2) \notin {"0x", "0X"}
  THEN [err |-> "hex string without 0x prefix", bytes |-> ""]
  ELSE LET d == SubSeq(input, 3, Len(input)) IN
    IF Len(d) % 2 = 1 THEN [err |-> "hex string of odd length", bytes |-> ""]
    ELSE IF \E i \in 1 .. Len(d) : SubSeq(d, i, i) \notin HexDigits
    THEN [err |-> "invalid hex string", bytes |-> ""]
    ELSE [err |-> "", bytes |-> d]

\* len(b) of bytes kept as their hex digits
ByteLen(b) == Len(b) \div 2

\* a variant that rejects only keys longer than 40 bytes
SignChangePubKey_atMost40(tc, btc, pubKey, nonce, eng) ==
  IF tc = NilClient THEN Out(tc, btc, TxErr(MobileStateErr), FALSE, NoCall)
  ELSE LET d == hexutilDecode(pubKey) IN
    IF d.err # "" THEN Out(tc, btc, TxErr(d.err), FALSE, NoCall)
    ELSE IF ByteLen(d.bytes) > 40
    THEN Out(tc, btc, TxErr("invalid pub key length. expected 40 but got "
                            \o ToString(ByteLen(d.bytes))), FALSE, NoCall)
    ELSE MobileSubmit(tc, btc, "GetChangePubKeyTransaction",
                      [PubKey |-> d.bytes], nonce, eng, TRUE)

SignChangePubKey(tc, btc, pubKey, nonce, eng) ==
  IF tc = NilClient THEN Out(tc, btc, TxErr(MobileStateErr), FALSE, NoCall)
  ELSE LET d == hexutilDecode(pubKey) IN
    IF d.err # "" THEN Out(tc, btc, TxErr(d.err), FALSE, NoCall)
    ELSE IF ByteLen(d.bytes) # 40
    THEN Out(tc, btc, TxErr("invalid pub key length. expected 40 but got "
                            \o ToString(ByteLen(d.bytes))), FALSE, NoCall)
    ELSE MobileSubmit(tc, btc, "GetChangePubKeyTransaction",
                      [PubKey |-> d.bytes], nonce, eng, TRUE)

\* a variant that adds the 28 days to the clock value of process start
ResolveExpiry_frozenClock(orderExpiry, t) ==
  IF orderExpiry = -1 THEN UnixMilli(0 + Days28Ms) ELSE orderExpiry

\* orderExpiry == -1: time.Now().Add(time.Hour * 24 * 28).UnixMilli()
ResolveExpiry(orderExpiry, t) ==
  IF orderExpiry = -1 THEN UnixMilli(t + Days28Ms) ELSE orderExpiry

SignCreateOrder(tc, btc, t, marketIndex, clientOrderIndex, baseAmount, price, isAsk, orderType, timeInForce, reduceOnly, triggerPrice, orderExpiry, nonce, eng) ==
  IF tc = NilClient THEN Out(tc, btc, TxErr(MobileStateErr), FALSE, NoCall)
  ELSE MobileSubmit(tc, btc, "GetCreateOrderTransaction",
         [MarketIndex |-> Uint8(marketIndex), ClientOrderIndex |-> clientOrderIndex,
          BaseAmount |-> baseAmount, Price |-> Uint32(price), IsAsk |-> Uint8(isAsk),
          Type |-> Uint8(orderType), TimeInForce |-> Uint8(timeInForce),
          ReduceOnly |-> Uint8(reduceOnly), TriggerPrice |-> Uint32(triggerPrice),
          OrderExpiry |-> ResolveExpiry(orderExpiry, t)],
         nonce, eng, FALSE)

SignCancelOrder(tc, btc, marketIndex, orderIndex, nonce, eng) ==
  IF tc = NilClient THEN Out(tc, btc, TxErr(MobileStateErr), FALSE, NoCall)
  ELSE MobileSubmit(tc, btc, "GetCancelOrderTransaction",
         [MarketIndex |-> Uint8(marketIndex), Index |-> orderIndex], nonce, eng, FALSE)

SignWithdraw(tc, btc, usdcAmount, nonce, eng) ==
  IF tc = NilClient THEN Out(tc, btc, TxErr(MobileStateErr), FALSE, NoCall)
  ELSE MobileSubmit(tc, btc, "GetWithdrawTransaction",
         [USDCAmount |-> usdcAmount], nonce, eng, FALSE)

SignCreateSubAccount(tc, btc, nonce, eng) ==
  IF tc = NilClient THEN Out(tc, btc, TxErr(MobileStateErr), FALSE, NoCall)
  ELSE MobileSubmit(tc, btc, "GetCreateSubAccountTransaction",
         [none |-> TRUE], nonce, eng, FALSE)

SignCancelAllOrders(tc, btc, timeInForce, time, nonce, eng) ==
  IF tc = NilClient THEN Out(tc, btc, TxErr(MobileStateErr), FALSE, NoCall)
  ELSE MobileSubmit(tc, btc, "GetCancelAllOrdersTransaction",
         [TimeInForce |-> Uint8(timeInForce), Time |-> time], nonce, eng, FALSE)

SignModifyOrder(tc, btc, marketIndex, index, baseAmount, price, triggerPrice, nonce, eng) ==
  IF tc = NilClient THEN Out(tc, btc, TxErr(MobileStateErr), FALSE, NoCall)
  ELSE MobileSubmit(tc, btc, "GetModifyOrderTransaction",
         [MarketIndex |-> Uint8(marketIndex), Index |-> index,
          BaseAmount |-> baseAmount, Price |-> Uint32(price),
          TriggerPrice |-> Uint32(triggerPrice)], nonce, eng, FALSE)

\* memoArray := [32]byte{}; for i := 0; i < 32; i++ { memoArray[i] = byte(memo[i]) }
\* (a byte past the end of a shorter memo stays the zero byte "")
MemoArray(memo) ==
  [i \in 1 .. 32 |-> IF i <= Len(memo) THEN SubSeq(memo, i, i) ELSE ""]

\* a variant that tests the memo before it looks for the client
SignTransfer_memoFirst(tc, btc, toAccountIndex, usdcAmount, fee, memo, nonce, eng) ==
  IF Len(memo) # 32
  THEN Out(tc, btc, TxErr("memo expected to be 32 bytes long"), FALSE, NoCall)
  ELSE IF tc = NilClient THEN Out(tc, btc, TxErr(MobileStateErr), FALSE, NoCall)
  ELSE MobileSubmit(tc, btc, "GetTransferTransaction",
         [ToAccountIndex |-> toAccountIndex, USDCAmount |-> usdcAmount,
          Fee |-> fee, Memo |-> MemoArray(memo)], nonce, eng, TRUE)

\* a variant that rejects only memos longer than 32 bytes
SignTransfer_atMost32(tc, btc, toAccountIndex, usdcAmount, fee, memo, nonce, eng) ==
  IF tc = NilClient THEN Out(tc, btc, TxErr(MobileStateErr), FALSE, NoCall)
  ELSE IF Len(memo) > 32
  THEN Out(tc, btc, TxErr("memo expected to be 32 bytes long"), FALSE, NoCall)
  ELSE MobileSubmit(tc, btc, "GetTransferTransaction",
         [ToAccountIndex |-> toAccountIndex, USDCAmount |-> usdcAmount,
          Fee |-> fee, Memo |-> MemoArray(memo)], nonce, eng, TRUE)

SignTransfer(tc, btc, toAccountIndex, usdcAmount, fee, memo, nonce, eng) ==
  IF tc = NilClient THEN Out(tc, btc, TxErr(MobileStateErr), FALSE, NoCall)
  ELSE IF Len(memo) # 32
  THEN Out(tc, btc, TxErr("memo expected to be 32 bytes long"), FALSE, NoCall)
  ELSE MobileSubmit(tc, btc, "GetTransferTransaction",
         [ToAccountIndex |-> toAccountIndex, USDCAmount |-> usdcAmount,
          Fee |-> fee, Memo |-> MemoArray(memo)], nonce, eng, TRUE)

SignCreatePublicPool(tc, btc, operatorFee, initialTotalShares, minOperatorShareRate, nonce, eng) ==
  IF tc = NilClient THEN Out(tc, btc, TxErr(MobileStateErr), FALSE, NoCall)
  ELSE MobileSubmit(tc, btc, "GetCreatePublicPoolTransaction",
         [OperatorFee |-> operatorFee, InitialTotalShares |-> initialTotalShares,
          MinOperatorShareRate |-> minOperatorShareRate], nonce, eng, FALSE)

SignUpdatePublicPool(tc, btc, publicPoolIndex, status, operatorFee, minOperatorShareRate, nonce, eng) ==
  IF tc = NilClient THEN Out(tc, btc, TxErr(MobileStateErr), FALSE, NoCall)
  ELSE MobileSubmit(tc, btc, "GetUpdatePublicPoolTransaction",
         [PublicPoolIndex |-> publicPoolIndex, Status |-> Uint8(status),
          OperatorFee |-> operatorFee,
          MinOperatorShareRate |-> minOperatorShareRate], nonce, eng, FALSE)

SignMintShares(tc, btc, publicPoolIndex, shareAmount, nonce, eng) ==
  IF tc = NilClient THEN Out(tc, btc, TxErr(MobileStateErr), FALSE, NoCall)
  ELSE MobileSubmit(tc, btc, "GetMintSharesTransaction",
         [PublicPoolIndex |-> publicPoolIndex, ShareAmount |-> shareAmount],
         nonce, eng, FALSE)

SignBurnShares(tc, btc, publicPoolIndex, shareAmount, nonce, eng) ==
  IF tc = NilClient THEN Out(tc, btc, TxErr(MobileStateErr), FALSE, NoCall)
  ELSE MobileSubmit(tc, btc, "GetBurnSharesTransaction",
         [PublicPoolIndex |-> publicPoolIndex, ShareAmount |-> shareAmount],
         nonce, eng, FALSE)

SignUpdateLeverage(tc, btc, marketIndex, initialMarginFraction, marginMode, nonce, eng) ==
  IF tc = NilClient THEN Out(tc, btc, TxErr(MobileStateErr), FALSE, NoCall)
  ELSE MobileSubmit(tc, btc, "GetUpdateLeverageTransaction",
         [MarketIndex |-> Uint8(marketIndex),
          InitialMarginFraction |-> Uint16(initialMarginFraction),
          MarginMode |-> Uint8(marginMode)], nonce, eng, FALSE)

SignUpdateMargin(tc, btc, marketIndex, usdcAmount, direction, nonce, eng) ==
  IF tc = NilClient
  THEN Out(tc, btc, TxErr("Client is not created, call CreateClient() first"),
           FALSE, NoCall)
  ELSE MobileSubmit(tc, btc, "GetUpdateMarginTransaction",
         [MarketIndex |-> Uint8(marketIndex), USDCAmount |-> usdcAmount,
          Direction |-> Uint8(direction)], nonce, eng, FALSE)

\* a variant that leaves the default deadline in the clock's unit
ResolveDeadline_millis(deadline, t) ==
  IF deadline = 0 THEN UnixMilli(t + Hours7Ms) ELSE deadline

\* deadline == 0: time.Now().Add(time.Hour * 7).Unix()
ResolveDeadline(deadline, t) ==
  IF deadline = 0 THEN Unix(t + Hours7Ms) ELSE deadline

CreateAuthToken(tc, btc, t, deadline, eng) ==
  IF tc = NilClient THEN Out(tc, btc, TxErr(MobileStateErr), FALSE, NoCall)
  ELSE LET c == EngineCall(tc, "GetAuthToken",
                           [Deadline |-> ResolveDeadline(deadline, t)],
                           [Nonce |-> <<>>])
       IN CASE eng = "panic" -> Out(tc, btc, NilResult, TRUE, c)
            [] eng = "err"   -> Out(tc, btc, TxErr(EngineErr), FALSE, c)
            [] OTHER         -> Out(tc, btc, TxOk(<<[token |-> SignedTx(c)]>>),
                                    FALSE, c)

\* ------------------------------------------- grouped orders (both cores)
RequiredFields == <<"marketIndex", "clientOrderIndex", "baseAmount", "price",
                    "isAsk", "type", "timeInForce">>

\* the first required field for which orderData[f].(float64) is not ok;
\* orderData maps the fields that hold a number to that number
FirstMissing(orderData) ==
  LET miss == {j \in 1 .. Len(RequiredFields) : RequiredFields[j] \notin DOMAIN orderData}
  IN IF miss = {} THEN ""
     ELSE RequiredFields[CHOOSE j \in miss : \A k \in miss : j <= k]

\* v, ok := orderData[f].(float64); the default when not ok
FieldOr(orderData, f, default) ==
  IF f \in DOMAIN orderData THEN orderData[f] ELSE default

\* a variant of the loop body that hands the expiry on as it was given
ConvertOrder_rawExpiry(orderData, t) ==
  [MarketIndex      |-> Uint8(orderData["marketIndex"]),
   ClientOrderIndex |-> orderData["clientOrderIndex"],
   BaseAmount       |-> orderData["baseAmount"],
   Price            |-> Uint32(orderData["price"]),
   IsAsk            |-> Uint8(orderData["isAsk"]),
   Type             |-> Uint8(orderData["type"]),
   TimeInForce      |-> Uint8(orderData["timeInForce"]),
   ReduceOnly       |-> Uint8(FieldOr(orderData, "reduceOnly", 0)),
   TriggerPrice     |-> Uint32(FieldOr(orderData, "triggerPrice", 0)),
   OrderExpiry      |-> FieldOr(orderData, "orderExpiry", -1)]

\* one pass of the loop body for a sub-order whose required fields are there
ConvertOrder(orderData, t) ==
  [MarketIndex      |-> Uint8(orderData["marketIndex"]),
   ClientOrderIndex |-> orderData["clientOrderIndex"],
   BaseAmount       |-> orderData["baseAmount"],
   Price            |-> Uint32(orderData["price"]),
   IsAsk            |-> Uint8(orderData["isAsk"]),
   Type             |-> Uint8(orderData["type"]),
   TimeInForce      |-> Uint8(orderData["timeInForce"]),
   ReduceOnly       |-> Uint8(FieldOr(orderData, "reduceOnly", 0)),
   TriggerPrice     |-> Uint32(FieldOr(orderData, "triggerPrice", 0)),
   OrderExpiry      |-> ResolveExpiry(FieldOr(orderData, "orderExpiry", -1), t)]

\* a variant that leaves out a sub-order lacking a required field and goes on
RECURSIVE ConvertOrders_skip(_, _, _, _)
ConvertOrders_skip(ordersData, i, orders, t) ==
  IF i > Len(ordersData) THEN [err |-> "", orders |-> orders]
  ELSE IF FirstMissing(ordersData[i]) # ""
  THEN ConvertOrders_skip(ordersData, i + 1, orders, t)
  ELSE ConvertOrders_skip(ordersData, i + 1,
                          Append(orders, ConvertOrder(ordersData[i], t)), t)

\* for i, orderData := range ordersData { ... }: the converted orders, or the
\* error of the first sub-order (0-based index i) that lacks a required field
RECURSIVE ConvertOrders(_, _, _, _)
ConvertOrders(ordersData, i, orders, t) ==
  IF i > Len(ordersData) THEN [err |-> "", orders |-> orders]
  ELSE LET miss == FirstMissing(ordersData[i]) IN
    IF miss # ""
    THEN [err |-> "order " \o ToString(i - 1) \o ": " \o miss \o " is required",
          orders |-> <<>>]
    ELSE ConvertOrders(ordersData, i + 1,
                       Append(orders, ConvertOrder(ordersData[i], t)), t)

\* ordersJSON: [valid |-> json.Unmarshal accepts it, orders |-> its objects]
SignCreateGroupedOrders(tc, btc, t, groupingType, ordersJSON, nonce, eng) ==
  IF tc = NilClient THEN Out(tc, btc, TxErr(MobileStateErr), FALSE, NoCall)
  ELSE IF ~ordersJSON.valid
  THEN Out(tc, btc, TxErr("failed to parse orders JSON: invalid character"),
           FALSE, NoCall)
  ELSE LET cv == ConvertOrders(ordersJSON.orders, 1, <<>>, t) IN
    IF cv.err # "" THEN Out(tc, btc, TxErr(cv.err), FALSE, NoCall)
    ELSE MobileSubmit(tc, btc, "GetCreateGroupedOrdersTransaction",
           [GroupingType |-> Uint8(groupingType), Orders |-> cv.orders],
           nonce, eng, FALSE)

\* ------------------------------------------------------ key generation
\* curve.SampleScalar(seedP): derived from the seed seedP points to, or sampled
\* (the draw rnd) when seedP is nil; seedP is <<>> for nil, <<seed>> for &seed
SampleScalar(seedP, rnd) ==
  IF seedP = <<>> THEN "rand-" \o ToString(rnd) ELSE "seed-" \o seedP[1]

\* schnorr.SchnorrPkFromSk(key).ToLittleEndianBytes()
SchnorrPkFromSk(key) == "pk-of-" \o key

\* GenerateAPIKey that never hands its seed to the curve library
GenerateAPIKey_noSeed(tc, btc, seed, rnd) ==
  LET key == SampleScalar(<<>>, rnd)
  IN Out(tc, btc,
         Result({"PrivateKey", "PublicKey", "Error"}, FALSE, "", <<>>,
                hexutilEncode(key), hexutilEncode(SchnorrPkFromSk(key))),
         FALSE, NoCall)

\* func GenerateAPIKey(seed string) *APIKeyResult
GenerateAPIKey(tc, btc, seed, rnd) ==
  LET seedP == IF seed = "" THEN <<>> ELSE <<seed>>
      key   == SampleScalar(seedP, rnd)
  IN Out(tc, btc,
         Result({"PrivateKey", "PublicKey", "Error"}, FALSE, "", <<>>,
                hexutilEncode(key), hexutilEncode(SchnorrPkFromSk(key))),
         FALSE, NoCall)

\* --------------------------------------------------- wasm core: builders
\* js.ValueOf(map[string]interface{}{"str": s, "err": nil})
WasmOk(j) == Result({"str", "err"}, FALSE, "", j, "", "")

WasmStateErr == "client is not created, call createClient() first"

\* tx, err := txClient.GetXTransaction(txInfo, ops) and what follows it
WasmSubmit(tc, btc, method, req, nonce, eng, withMessage) ==
  LET c  == EngineCall(tc, method, req, TransactOpts(nonce))
      tx == SignedTx(c)
  IN CASE eng = "panic" -> Out(tc, btc, WasmNull, TRUE, c)
       [] eng = "err"   -> Out(tc, btc, WasmErr(EngineErr), FALSE, c)
       [] OTHER         -> Out(tc, btc,
                               WasmOk(IF withMessage THEN MarshalWithMessage(tx)
                                                     ELSE MarshalTx(tx)),
                               FALSE, c)

\* the two checks every wasm builder opens with; "" when both pass
WasmPrecheck(tc, argc, need, stateErr) ==
  IF tc = NilClient THEN stateErr
  ELSE IF argc < need THEN "insufficient arguments"
  ELSE ""

signChangePubKey(tc, btc, argc, pubKeyStr, nonce, eng) ==
  LET pre == WasmPrecheck(tc, argc, 2, WasmStateErr) IN
  IF pre # "" THEN Out(tc, btc, WasmErr(pre), FALSE, NoCall)
  ELSE LET d == hexutilDecode(pubKeyStr) IN
    IF d.err # "" THEN Out(tc, btc, WasmErr(d.err), FALSE, NoCall)
    ELSE IF ByteLen(d.bytes) # 40
    THEN Out(tc, btc, WasmErr("invalid pub key length. expected 40 but got "
                              \o ToString(ByteLen(d.bytes))), FALSE, NoCall)
    ELSE WasmSubmit(tc, btc, "GetChangePubKeyTransaction",
                    [PubKey |-> d.bytes], nonce, eng, TRUE)

signCreateOrder(tc, btc, t, argc, marketIndex, clientOrderIndex, baseAmount, price, isAsk, orderType, timeInForce, reduceOnly, triggerPrice, orderExpiry, nonce, eng) ==
  LET pre == WasmPrecheck(tc, argc, 11, WasmStateErr) IN
  IF pre # "" THEN Out(tc, btc, WasmErr(pre), FALSE, NoCall)
  ELSE WasmSubmit(tc, btc, "GetCreateOrderTransaction",
         [MarketIndex |-> Uint8(marketIndex), ClientOrderIndex |-> clientOrderIndex,
          BaseAmount |-> baseAmount, Price |-> Uint32(price), IsAsk |-> Uint8(isAsk),
          Type |-> Uint8(orderType), TimeInForce |-> Uint8(timeInForce),
          ReduceOnly |-> Uint8(reduceOnly), TriggerPrice |-> Uint32(triggerPrice),
          OrderExpiry |-> ResolveExpiry(orderExpiry, t)],
         nonce, eng, FALSE)

signCreateGroupedOrders(tc, btc, t, argc, groupingType, ordersJSON, nonce, eng) ==
  IF tc = NilClient THEN Out(tc, btc, WasmErr(WasmStateErr), FALSE, NoCall)
  ELSE IF argc < 3
  THEN Out(tc, btc,
           WasmErr("insufficient arguments: expected groupingType, ordersJSON, nonce"),
           FALSE, NoCall)
  ELSE IF ~ordersJSON.valid
  THEN Out(tc, btc, WasmErr("failed to parse orders JSON: invalid character"),
           FALSE, NoCall)
  ELSE LET cv == ConvertOrders(ordersJSON.orders, 1, <<>>, t) IN
    IF cv.err # "" THEN Out(tc, btc, WasmErr(cv.err), FALSE, NoCall)
    ELSE WasmSubmit(tc, btc, "GetCreateGroupedOrdersTransaction",
           [GroupingType |-> Uint8(groupingType), Orders |-> cv.orders],
           nonce, eng, FALSE)

\* a variant that marshals the transfer without the auxiliary message
signTransfer_plainDoc(tc, btc, argc, toAccountIndex, usdcAmount, fee, memoStr, nonce, eng) ==
  LET pre == WasmPrecheck(tc, argc, 5, WasmStateErr) IN
  IF pre # "" THEN Out(tc, btc, WasmErr(pre), FALSE, NoCall)
  ELSE IF Len(memoStr) # 32
  THEN Out(tc, btc, WasmErr("memo expected to be 32 bytes long"), FALSE, NoCall)
  ELSE WasmSubmit(tc, btc, "GetTransferTransaction",
         [ToAccountIndex |-> toAccountIndex, USDCAmount |-> usdcAmount,
          Fee |-> fee, Memo |-> MemoArray(memoStr)], nonce, eng, FALSE)

signTransfer(tc, btc, argc, toAccountIndex, usdcAmount, fee, memoStr, nonce, eng) ==
  LET pre == WasmPrecheck(tc, argc, 5, WasmStateErr) IN
  IF pre # "" THEN Out(tc, btc, WasmErr(pre), FALSE, NoCall)
  ELSE IF Len(memoStr) # 32
  THEN Out(tc, btc, WasmErr("memo expected to be 32 bytes long"), FALSE, NoCall)
  ELSE WasmSubmit(tc, btc, "GetTransferTransaction",
         [ToAccountIndex |-> toAccountIndex, USDCAmount |-> usdcAmount,
          Fee |-> fee, Memo |-> MemoArray(memoStr)], nonce, eng, TRUE)

signUpdateMargin(tc, btc, argc, marketIndex, usdcAmount, direction, nonce, eng) ==
  LET pre == WasmPrecheck(tc, argc, 4,
                          "Client is not created, call CreateClient() first") IN
  IF pre # "" THEN Out(tc, btc, WasmErr(pre), FALSE, NoCall)
  ELSE WasmSubmit(tc, btc, "GetUpdateMarginTransaction",
         [MarketIndex |-> Uint8(marketIndex), USDCAmount |-> usdcAmount,
          Direction |-> Uint8(direction)], nonce, eng, FALSE)

createAuthToken(tc, btc, t, argc, deadline, eng) ==
  LET pre == WasmPrecheck(tc, argc, 1, WasmStateErr) IN
  IF pre # "" THEN Out(tc, btc, WasmErr(pre), FALSE, NoCall)
  ELSE LET c == EngineCall(tc, "GetAuthToken",
                           [Deadline |-> ResolveDeadline(deadline, t)],
                           [Nonce |-> <<>>])
       IN CASE eng = "panic" -> Out(tc, btc, WasmNull, TRUE, c)
            [] eng = "err"   -> Out(tc, btc, WasmErr(EngineErr), FALSE, c)
            [] OTHER         -> Out(tc, btc, WasmOk(<<[token |-> SignedTx(c)]>>),
                                    FALSE, c)

\* func generateAPIKey(this js.Value, args []js.Value) interface{}
\* seed: args[0] when it is a string, "" otherwise
generateAPIKey(tc, btc, seed, rnd) ==
  LET seedP == IF seed # "" THEN <<seed>> ELSE <<>>
      key   == SampleScalar(seedP, rnd)
  IN Out(tc, btc,
         Result({"privateKey", "publicKey", "err"}, FALSE, "", <<>>,
                hexutilEncode(key), hexutilEncode(SchnorrPkFromSk(key))),
         FALSE, NoCall)

signCancelOrder(tc, btc, argc, marketIndex, orderIndex, nonce, eng) ==
  LET pre == WasmPrecheck(tc, argc, 3, WasmStateErr) IN
  IF pre # "" THEN Out(tc, btc, WasmErr(pre), FALSE, NoCall)
  ELSE WasmSubmit(tc, btc, "GetCancelOrderTransaction",
         [MarketIndex |-> Uint8(marketIndex), Index |-> orderIndex], nonce, eng, FALSE)

signWithdraw(tc, btc, argc, usdcAmount, nonce, eng) ==
  LET pre == WasmPrecheck(tc, argc, 2, WasmStateErr) IN
  IF pre # "" THEN Out(tc, btc, WasmErr(pre), FALSE, NoCall)
  ELSE WasmSubmit(tc, btc, "GetWithdrawTransaction",
         [USDCAmount |-> usdcAmount], nonce, eng, FALSE)

signCreateSubAccount(tc, btc, argc, nonce, eng) ==
  LET pre == WasmPrecheck(tc, argc, 1, WasmStateErr) IN
  IF pre # "" THEN Out(tc, btc, WasmErr(pre), FALSE, NoCall)
  ELSE WasmSubmit(tc, btc, "GetCreateSubAccountTransaction",
         [none |-> TRUE], nonce, eng, FALSE)

signCancelAllOrders(tc, btc, argc, timeInForce, time, nonce, eng) ==
  LET pre == WasmPrecheck(tc, argc, 3, WasmStateErr) IN
  IF pre # "" THEN Out(tc, btc, WasmErr(pre), FALSE, NoCall)
  ELSE WasmSubmit(tc, btc, "GetCancelAllOrdersTransaction",
         [TimeInForce |-> Uint8(timeInForce), Time |-> time], nonce, eng, FALSE)

signModifyOrder(tc, btc, argc, marketIndex, index, baseAmount, price, triggerPrice, nonce, eng) ==
  LET pre == WasmPrecheck(tc, argc, 6, WasmStateErr) IN
  IF pre # "" THEN Out(tc, btc, WasmErr(pre), FALSE, NoCall)
  ELSE WasmSubmit(tc, btc, "GetModifyOrderTransaction",
         [MarketIndex |-> Uint8(marketIndex), Index |-> index,
          BaseAmount |-> baseAmount, Price |-> Uint32(price),
          TriggerPrice |-> Uint32(triggerPrice)], nonce, eng, FALSE)

signCreatePublicPool(tc, btc, argc, operatorFee, initialTotalShares, minOperatorShareRate, nonce, eng) ==
  LET pre == WasmPrecheck(tc, argc, 4, WasmStateErr) IN
  IF pre # "" THEN Out(tc, btc, WasmErr(pre), FALSE, NoCall)
  ELSE WasmSubmit(tc, btc, "GetCreatePublicPoolTransaction",
         [OperatorFee |-> operatorFee, InitialTotalShares |-> initialTotalShares,
          MinOperatorShareRate |-> minOperatorShareRate], nonce, eng, FALSE)

signUpdatePublicPool(tc, btc, argc, publicPoolIndex, status, operatorFee, minOperatorShareRate, nonce, eng) ==
  LET pre == WasmPrecheck(tc, argc, 5, WasmStateErr) IN
  IF pre # "" THEN Out(tc, btc, WasmErr(pre), FALSE, NoCall)
  ELSE WasmSubmit(tc, btc, "GetUpdatePublicPoolTransaction",
         [PublicPoolIndex |-> publicPoolIndex, Status |-> Uint8(status),
          OperatorFee |-> operatorFee,
          MinOperatorShareRate |-> minOperatorShareRate], nonce, eng, FALSE)

signMintShares(tc, btc, argc, publicPoolIndex, shareAmount, nonce, eng) ==
  LET pre == WasmPrecheck(tc, argc, 3, WasmStateErr) IN
  IF pre # "" THEN Out(tc, btc, WasmErr(pre), FALSE, NoCall)
  ELSE WasmSubmit(tc, btc, "GetMintSharesTransaction",
         [PublicPoolIndex |-> publicPoolIndex, ShareAmount |-> shareAmount], nonce, eng, FALSE)

signBurnShares(tc, btc, argc, publicPoolIndex, shareAmount, nonce, eng) ==
  LET pre == WasmPrecheck(tc, argc, 3, WasmStateErr) IN
  IF pre # "" THEN Out(tc, btc, WasmErr(pre), FALSE, NoCall)
  ELSE WasmSubmit(tc, btc, "GetBurnSharesTransaction",
         [PublicPoolIndex |-> publicPoolIndex, ShareAmount |-> shareAmount], nonce, eng, FALSE)

signUpdateLeverage(tc, btc, argc, marketIndex, initialMarginFraction, marginMode, nonce, eng) ==
  LET pre == WasmPrecheck(tc, argc, 4, WasmStateErr) IN
  IF pre # "" THEN Out(tc, btc, WasmErr(pre), FALSE, NoCall)
  ELSE WasmSubmit(tc, btc, "GetUpdateLeverageTransaction",
         [MarketIndex |-> Uint8(marketIndex),
          InitialMarginFraction |-> Uint16(initialMarginFraction),
          MarginMode |-> Uint8(marginMode)], nonce, eng, FALSE)

\* ------------------------------------------------ inputs a host can pass
Nonces    == -2 .. MaxNonce
Expiries  == {-1, 1700000000}
Deadlines == {0, 1700003600}
Seeds     == {"", "alice"}
Rnds      == {1, 2}

RECURSIVE Rep(_, _)
Rep(ch, n) == IF n = 0 THEN "" ELSE ch \o Rep(ch, n - 1)

MemoLens == {0, 16, 31, 32, 33, 64}
Memos    == {Rep("m", n) : n \in MemoLens} \cup {Rep("z", 32)}

\* hex strings decoding to 0, 39, 40 and 41 bytes, and strings Decode rejects
PubKeys == {"0x" \o Rep("a", 2 * n) : n \in {0, 39, 40, 41}}
             \cup {"", Rep("a", 80), "0x" \o Rep("a", 79), "0x" \o Rep("g", 80)}

FullOrder == [f \in {RequiredFields[j] : j \in 1 .. Len(RequiredFields)} |-> 1]

OrderObjects ==
  { FullOrder,
    FullOrder @@ [f \in {"reduceOnly", "triggerPrice"} |-> 1]
              @@ [f \in {"orderExpiry"} |-> 1700000000],
    FullOrder @@ [f \in {"orderExpiry"} |-> -1],
    [f \in (DOMAIN FullOrder) \ {"price"} |-> 1] }

RECURSIVE SeqsUpTo(_, _)
SeqsUpTo(S, n) ==
  IF n = 0 THEN {<<>>}
  ELSE LET shorter == SeqsUpTo(S, n - 1)
       IN shorter \cup {Append(q, x) : q \in shorter, x \in S}

OrdersJSONs ==
  {[valid |-> FALSE, orders |-> <<>>]}
    \cup {[valid |-> TRUE, orders |-> q] : q \in SeqsUpTo(OrderObjects, MaxOrders)}

\* ---------------------------------------------------------------- state
\* a host thread that is not inside an operation
IdleThread ==
  [pc |-> "idle", op |-> "none", apiKeyIndex |-> 0, made |-> NilClient,
   filedOwn |-> FALSE, inMap |-> FALSE, res |-> "", panicked |-> FALSE]

\* the API key indexes in 0 .. 255 a host passes: there the mobile core's int
\* key and the client's 8-bit slot agree
InRangeSlots == {0, MaxSlot}

\* a wasm core on which nothing was called
NoTwin == [txClient |-> NilClient, backupTxClients |-> EmptyMap, res |-> WasmErr("")]

NoOp == [op |-> "none", args |-> <<>>, res |-> MobileStr(""), panicked |-> FALSE]

Init ==
  /\ core \in {"mobile", "wasm"}
  /\ txClient = NilClient
  /\ backupTxClients = EmptyMap
  /\ nextId = 1
  /\ opened = FALSE
  /\ lastSwitch = <<>>
  /\ now = 0
  /\ ret = NoOp
  /\ call = NoCall
  /\ threads = [th \in {IdleThread} |-> MaxThreads]
  /\ twin = NoTwin

RegistryOps == {"CreateClient", "createClient", "CheckClient", "checkClient",
                "SwitchAPIKey", "switchAPIKey"}
KeyPairOps  == {"GenerateAPIKey", "generateAPIKey"}

\* the result tells the host the operation succeeded
Succeeded(res) == ~res.isNil /\ res.Error = ""

\* the host calls an operation once it holds no unread result
Idle == ret = NoOp

\* the effect of one handler run, from what the handler leaves behind
Apply(op, args, o) ==
  /\ txClient' = o.txClient
  /\ backupTxClients' = o.backupTxClients
  /\ ret' = [op |-> op, args |-> args, res |-> o.res, panicked |-> o.panicked]
  /\ call' = o.call
  /\ lastSwitch' = IF op \in {"SwitchAPIKey", "switchAPIKey"} /\ Succeeded(o.res)
                   THEN <<args.apiKeyIndex>>
                   ELSE IF op \in RegistryOps \cup KeyPairOps THEN <<>>
                   ELSE lastSwitch
  /\ UNCHANGED <<core, now, threads, twin>>

ApplyOp(op, args, o) == Apply(op, args, o) /\ UNCHANGED <<nextId, opened>>

\* a handler run that may allocate a client
ApplyCreate(op, args, o) ==
  LET allocated == o.txClient.id = nextId IN
  /\ allocated => nextId <= MaxSessions
  /\ Apply(op, args, o)
  /\ nextId' = IF allocated THEN nextId + 1 ELSE nextId
  /\ opened' = (opened \/ Succeeded(o.res))

\* the host takes the result of the operation it called
Return ==
  /\ ret # NoOp
  /\ ret' = NoOp
  /\ call' = NoCall
  /\ UNCHANGED <<core, txClient, backupTxClients, nextId, opened, lastSwitch, now,
                 threads, twin>>

\* how far the wall clock advances between two operations: a second and a
\* half, in the clock's unit
TickStep == 1500

\* the wall clock advances between operations
Tick ==
  /\ Idle
  /\ now < MaxNow * TickStep
  /\ now' = now + TickStep
  /\ UNCHANGED <<core, txClient, backupTxClients, nextId, opened, lastSwitch, ret,
                 call, threads, twin>>

\* ------------------------------------------------- mobile core: actions
Do_GenerateAPIKey ==
  /\ Idle
  /\ core = "mobile"
  /\ \E seed \in Seeds, rnd \in Rnds :
       ApplyOp("GenerateAPIKey", [seed |-> seed],
               GenerateAPIKey(txClient, backupTxClients, seed, rnd))

Do_CreateClient ==
  /\ Idle
  /\ core = "mobile"
  /\ \E privateKey \in PrivateKeys, apiKeyIndex \in SlotArgs,
        accountIndex \in AccountArgs :
       ApplyCreate("CreateClient",
                   [privateKey |-> privateKey, apiKeyIndex |-> apiKeyIndex,
                    accountIndex |-> accountIndex],
                   CreateClient(txClient, backupTxClients, nextId, privateKey,
                                apiKeyIndex, accountIndex))

Do_CheckClient ==
  /\ Idle
  /\ core = "mobile"
  /\ \E apiKeyIndex \in SlotArgs, accountIndex \in AccountArgs,
        reply \in RemoteReplies :
       ApplyOp("CheckClient",
               [apiKeyIndex |-> apiKeyIndex, accountIndex |-> accountIndex,
                reply |-> reply],
               CheckClient(txClient, backupTxClients, apiKeyIndex, accountIndex, reply))

Do_SwitchAPIKey ==
  /\ Idle
  /\ core = "mobile"
  /\ \E apiKeyIndex \in SlotArgs :
       ApplyOp("SwitchAPIKey", [apiKeyIndex |-> apiKeyIndex],
               SwitchAPIKey(txClient, backupTxClients, apiKeyIndex))

Do_SignChangePubKey ==
  /\ Idle
  /\ core = "mobile"
  /\ \E pubKey \in PubKeys, nonce \in Nonces, eng \in EngineOutcomes :
       ApplyOp("SignChangePubKey", [pubKey |-> pubKey, nonce |-> nonce],
               SignChangePubKey(txClient, backupTxClients, pubKey, nonce, eng))

Do_SignCreateOrder ==
  /\ Idle
  /\ core = "mobile"
  /\ \E orderExpiry \in Expiries, nonce \in Nonces, eng \in EngineOutcomes :
       ApplyOp("SignCreateOrder", [orderExpiry |-> orderExpiry, nonce |-> nonce],
               SignCreateOrder(txClient, backupTxClients, now, 1, 1, 1, 1, 1, 1, 1, 1, 1,
                               orderExpiry, nonce, eng))

Do_SignCreateGroupedOrders ==
  /\ Idle
  /\ core = "mobile"
  /\ \E ordersJSON \in OrdersJSONs, nonce \in Nonces, eng \in EngineOutcomes :
       ApplyOp("SignCreateGroupedOrders", [ordersJSON |-> ordersJSON, nonce |-> nonce],
               SignCreateGroupedOrders(txClient, backupTxClients, now, 1, ordersJSON,
                                       nonce, eng))

Do_SignTransfer ==
  /\ Idle
  /\ core = "mobile"
  /\ \E memo \in Memos, nonce \in Nonces, eng \in EngineOutcomes :
       ApplyOp("SignTransfer", [memo |-> memo, nonce |-> nonce],
               SignTransfer(txClient, backupTxClients, 1, 1, 1, memo, nonce, eng))

Do_CreateAuthToken ==
  /\ Idle
  /\ core = "mobile"
  /\ \E deadline \in Deadlines, eng \in EngineOutcomes :
       ApplyOp("CreateAuthToken", [deadline |-> deadline],
               CreateAuthToken(txClient, backupTxClients, now, deadline, eng))

Do_SignCancelOrder ==
  /\ Idle
  /\ core = "mobile"
  /\ \E nonce \in Nonces, eng \in EngineOutcomes :
       ApplyOp("SignCancelOrder", [nonce |-> nonce],
               SignCancelOrder(txClient, backupTxClients, 1, 1, nonce, eng))

Do_SignWithdraw ==
  /\ Idle
  /\ core = "mobile"
  /\ \E nonce \in Nonces, eng \in EngineOutcomes :
       ApplyOp("SignWithdraw", [nonce |-> nonce],
               SignWithdraw(txClient, backupTxClients, 1, nonce, eng))

Do_SignCreateSubAccount ==
  /\ Idle
  /\ core = "mobile"
  /\ \E nonce \in Nonces, eng \in EngineOutcomes :
       ApplyOp("SignCreateSubAccount", [nonce |-> nonce],
               SignCreateSubAccount(txClient, backupTxClients, nonce, eng))

Do_SignCancelAllOrders ==
  /\ Idle
  /\ core = "mobile"
  /\ \E nonce \in Nonces, eng \in EngineOutcomes :
       ApplyOp("SignCancelAllOrders", [nonce |-> nonce],
               SignCancelAllOrders(txClient, backupTxClients, 1, 1, nonce, eng))

Do_SignModifyOrder ==
  /\ Idle
  /\ core = "mobile"
  /\ \E nonce \in Nonces, eng \in EngineOutcomes :
       ApplyOp("SignModifyOrder", [nonce |-> nonce],
               SignModifyOrder(txClient, backupTxClients, 1, 1, 1, 1, 1, nonce, eng))

Do_SignCreatePublicPool ==
  /\ Idle
  /\ core = "mobile"
  /\ \E nonce \in Nonces, eng \in EngineOutcomes :
       ApplyOp("SignCreatePublicPool", [nonce |-> nonce],
               SignCreatePublicPool(txClient, backupTxClients, 1, 1, 1, nonce, eng))

Do_SignUpdatePublicPool ==
  /\ Idle
  /\ core = "mobile"
  /\ \E nonce \in Nonces, eng \in EngineOutcomes :
       ApplyOp("SignUpdatePublicPool", [nonce |-> nonce],
               SignUpdatePublicPool(txClient, backupTxClients, 1, 1, 1, 1, nonce, eng))

Do_SignMintShares ==
  /\ Idle
  /\ core = "mobile"
  /\ \E nonce \in Nonces, eng \in EngineOutcomes :
       ApplyOp("SignMintShares", [nonce |-> nonce],
               SignMintShares(txClient, backupTxClients, 1, 1, nonce, eng))

Do_SignBurnShares ==
  /\ Idle
  /\ core = "mobile"
  /\ \E nonce \in Nonces, eng \in EngineOutcomes :
       ApplyOp("SignBurnShares", [nonce |-> nonce],
               SignBurnShares(txClient, backupTxClients, 1, 1, nonce, eng))

Do_SignUpdateLeverage ==
  /\ Idle
  /\ core = "mobile"
  /\ \E nonce \in Nonces, eng \in EngineOutcomes :
       ApplyOp("SignUpdateLeverage", [nonce |-> nonce],
               SignUpdateLeverage(txClient, backupTxClients, 1, 1, 1, nonce, eng))

Do_SignUpdateMargin ==
  /\ Idle
  /\ core = "mobile"
  /\ \E nonce \in Nonces, eng \in EngineOutcomes :
       ApplyOp("SignUpdateMargin", [nonce |-> nonce],
               SignUpdateMargin(txClient, backupTxClients, 1, 1, 1, nonce, eng))

\* --------------------------------------------------- wasm core: actions
\* argc: how many arguments the script passed (one short, or all of them)
Argc(need) == {need - 1, need}

\* the values of an argument the script may pass; a call that is one argument
\* short returns before it reads any of them, so one value stands for all
Given(argc, need, S) == IF argc < need THEN {CHOOSE x \in S : TRUE} ELSE S

Do_generateAPIKey ==
  /\ Idle
  /\ core = "wasm"
  /\ \E seed \in Seeds, rnd \in Rnds :
       ApplyOp("generateAPIKey", [seed |-> seed],
               generateAPIKey(txClient, backupTxClients, seed, rnd))

Do_createClient ==
  /\ Idle
  /\ core = "wasm"
  /\ \E argc \in Argc(5) :
     \E privateKey \in Given(argc, 5, PrivateKeys),
        apiKeyIndex \in Given(argc, 5, SlotArgs),
        accountIndex \in Given(argc, 5, AccountArgs) :
       ApplyCreate("createClient",
                   [argc |-> argc, privateKey |-> privateKey,
                    apiKeyIndex |-> apiKeyIndex, accountIndex |-> accountIndex],
                   createClient(txClient, backupTxClients, nextId, argc, privateKey,
                                apiKeyIndex, accountIndex))

Do_checkClient ==
  /\ Idle
  /\ core = "wasm"
  /\ \E argc \in Argc(2) :
     \E apiKeyIndex \in Given(argc, 2, SlotArgs),
        accountIndex \in Given(argc, 2, AccountArgs),
        reply \in Given(argc, 2, RemoteReplies) :
       ApplyOp("checkClient",
               [argc |-> argc, apiKeyIndex |-> apiKeyIndex,
                accountIndex |-> accountIndex, reply |-> reply],
               checkClient(txClient, backupTxClients, argc, apiKeyIndex,
                           accountIndex, reply))

Do_switchAPIKey ==
  /\ Idle
  /\ core = "wasm"
  /\ \E argc \in Argc(1) :
     \E apiKeyIndex \in Given(argc, 1, SlotArgs) :
       ApplyOp("switchAPIKey", [argc |-> argc, apiKeyIndex |-> apiKeyIndex],
               switchAPIKey(txClient, backupTxClients, argc, apiKeyIndex))

Do_signChangePubKey ==
  /\ Idle
  /\ core = "wasm"
  /\ \E argc \in Argc(2) :
     \E pubKey \in Given(argc, 2, PubKeys),
        nonce \in Given(argc, 2, Nonces),
        eng \in Given(argc, 2, EngineOutcomes) :
       ApplyOp("signChangePubKey", [argc |-> argc, pubKey |-> pubKey, nonce |-> nonce],
               signChangePubKey(txClient, backupTxClients, argc, pubKey, nonce, eng))

Do_signCreateOrder ==
  /\ Idle
  /\ core = "wasm"
  /\ \E argc \in Argc(11) :
     \E orderExpiry \in Given(argc, 11, Expiries),
        nonce \in Given(argc, 11, Nonces),
        eng \in Given(argc, 11, EngineOutcomes) :
       ApplyOp("signCreateOrder",
               [argc |-> argc, orderExpiry |-> orderExpiry, nonce |-> nonce],
               signCreateOrder(txClient, backupTxClients, now, argc, 1, 1, 1, 1, 1, 1, 1,
                               1, 1, orderExpiry, nonce, eng))

Do_signCreateGroupedOrders ==
  /\ Idle
  /\ core = "wasm"
  /\ \E argc \in Argc(3) :
     \E ordersJSON \in Given(argc, 3, OrdersJSONs),
        nonce \in Given(argc, 3, Nonces),
        eng \in Given(argc, 3, EngineOutcomes) :
       ApplyOp("signCreateGroupedOrders",
               [argc |-> argc, ordersJSON |-> ordersJSON, nonce |-> nonce],
               signCreateGroupedOrders(txClient, backupTxClients, now, argc, 1,
                                       ordersJSON, nonce, eng))

Do_signTransfer ==
  /\ Idle
  /\ core = "wasm"
  /\ \E argc \in Argc(5) :
     \E memo \in Given(argc, 5, Memos),
        nonce \in Given(argc, 5, Nonces),
        eng \in Given(argc, 5, EngineOutcomes) :
       ApplyOp("signTransfer", [argc |-> argc, memo |-> memo, nonce |-> nonce],
               signTransfer(txClient, backupTxClients, argc, 1, 1, 1, memo, nonce, eng))

Do_createAuthToken ==
  /\ Idle
  /\ core = "wasm"
  /\ \E argc \in Argc(1) :
     \E deadline \in Given(argc, 1, Deadlines),
        eng \in Given(argc, 1, EngineOutcomes) :
       ApplyOp("createAuthToken", [argc |-> argc, deadline |-> deadline],
               createAuthToken(txClient, backupTxClients, now, argc, deadline, eng))

Do_signCancelOrder ==
  /\ Idle
  /\ core = "wasm"
  /\ \E argc \in Argc(3) :
     \E nonce \in Given(argc, 3, Nonces),
        eng \in Given(argc, 3, EngineOutcomes) :
       ApplyOp("signCancelOrder", [argc |-> argc, nonce |-> nonce],
               signCancelOrder(txClient, backupTxClients, argc, 1, 1, nonce, eng))

Do_signWithdraw ==
  /\ Idle
  /\ core = "wasm"
  /\ \E argc \in Argc(2) :
     \E nonce \in Given(argc, 2, Nonces),
        eng \in Given(argc, 2, EngineOutcomes) :
       ApplyOp("signWithdraw", [argc |-> argc, nonce |-> nonce],
               signWithdraw(txClient, backupTxClients, argc, 1, nonce, eng))

Do_signCreateSubAccount ==
  /\ Idle
  /\ core = "wasm"
  /\ \E argc \in Argc(1) :
     \E nonce \in Given(argc, 1, Nonces),
        eng \in Given(argc, 1, EngineOutcomes) :
       ApplyOp("signCreateSubAccount", [argc |-> argc, nonce |-> nonce],
               signCreateSubAccount(txClient, backupTxClients, argc, nonce, eng))

Do_signCancelAllOrders ==
  /\ Idle
  /\ core = "wasm"
  /\ \E argc \in Argc(3) :
     \E nonce \in Given(argc, 3, Nonces),
        eng \in Given(argc, 3, EngineOutcomes) :
       ApplyOp("signCancelAllOrders", [argc |-> argc, nonce |-> nonce],
               signCancelAllOrders(txClient, backupTxClients, argc, 1, 1, nonce, eng))

Do_signModifyOrder ==
  /\ Idle
  /\ core = "wasm"
  /\ \E argc \in Argc(6) :
     \E nonce \in Given(argc, 6, Nonces),
        eng \in Given(argc, 6, EngineOutcomes) :
       ApplyOp("signModifyOrder", [argc |-> argc, nonce |-> nonce],
               signModifyOrder(txClient, backupTxClients, argc, 1, 1, 1, 1, 1, nonce, eng))

Do_signCreatePublicPool ==
  /\ Idle
  /\ core = "wasm"
  /\ \E argc \in Argc(4) :
     \E nonce \in Given(argc, 4, Nonces),
        eng \in Given(argc, 4, EngineOutcomes) :
       ApplyOp("signCreatePublicPool", [argc |-> argc, nonce |-> nonce],
               signCreatePublicPool(txClient, backupTxClients, argc, 1, 1, 1, nonce, eng))

Do_signUpdatePublicPool ==
  /\ Idle
  /\ core = "wasm"
  /\ \E argc \in Argc(5) :
     \E nonce \in Given(argc, 5, Nonces),
        eng \in Given(argc, 5, EngineOutcomes) :
       ApplyOp("signUpdatePublicPool", [argc |-> argc, nonce |-> nonce],
               signUpdatePublicPool(txClient, backupTxClients, argc, 1, 1, 1, 1, nonce, eng))

Do_signMintShares ==
  /\ Idle
  /\ core = "wasm"
  /\ \E argc \in Argc(3) :
     \E nonce \in Given(argc, 3, Nonces),
        eng \in Given(argc, 3, EngineOutcomes) :
       ApplyOp("signMintShares", [argc |-> argc, nonce |-> nonce],
               signMintShares(txClient, backupTxClients, argc, 1, 1, nonce, eng))

Do_signBurnShares ==
  /\ Idle
  /\ core = "wasm"
  /\ \E argc \in Argc(3) :
     \E nonce \in Given(argc, 3, Nonces),
        eng \in Given(argc, 3, EngineOutcomes) :
       ApplyOp("signBurnShares", [argc |-> argc, nonce |-> nonce],
               signBurnShares(txClient, backupTxClients, argc, 1, 1, nonce, eng))

Do_signUpdateLeverage ==
  /\ Idle
  /\ core = "wasm"
  /\ \E argc \in Argc(4) :
     \E nonce \in Given(argc, 4, Nonces),
        eng \in Given(argc, 4, EngineOutcomes) :
       ApplyOp("signUpdateLeverage", [argc |-> argc, nonce |-> nonce],
               signUpdateLeverage(txClient, backupTxClients, argc, 1, 1, 1, nonce, eng))

Do_signUpdateMargin ==
  /\ Idle
  /\ core = "wasm"
  /\ \E argc \in Argc(4) :
     \E nonce \in Given(argc, 4, Nonces),
        eng \in Given(argc, 4, EngineOutcomes) :
       ApplyOp("signUpdateMargin", [argc |-> argc, nonce |-> nonce],
               signUpdateMargin(txClient, backupTxClients, argc, 1, 1, 1, nonce, eng))

Next ==
  \/ Tick
  \/ Return
  \/ Do_GenerateAPIKey
  \/ Do_CreateClient
  \/ Do_CheckClient
  \/ Do_SwitchAPIKey
  \/ Do_SignChangePubKey
  \/ Do_SignCreateOrder
  \/ Do_SignCreateGroupedOrders
  \/ Do_SignTransfer
  \/ Do_CreateAuthToken
  \/ Do_SignCancelOrder
  \/ Do_SignWithdraw
  \/ Do_SignCreateSubAccount
  \/ Do_SignCancelAllOrders
  \/ Do_SignModifyOrder
  \/ Do_SignCreatePublicPool
  \/ Do_SignUpdatePublicPool
  \/ Do_SignMintShares
  \/ Do_SignBurnShares
  \/ Do_SignUpdateLeverage
  \/ Do_SignUpdateMargin
  \/ Do_generateAPIKey
  \/ Do_createClient
  \/ Do_checkClient
  \/ Do_switchAPIKey
  \/ Do_signChangePubKey
  \/ Do_signCreateOrder
  \/ Do_signCreateGroupedOrders
  \/ Do_signTransfer
  \/ Do_createAuthToken
  \/ Do_signCancelOrder
  \/ Do_signWithdraw
  \/ Do_signCreateSubAccount
  \/ Do_signCancelAllOrders
  \/ Do_signModifyOrder
  \/ Do_signCreatePublicPool
  \/ Do_signUpdatePublicPool
  \/ Do_signMintShares
  \/ Do_signBurnShares
  \/ Do_signUpdateLeverage
  \/ Do_signUpdateMargin

Spec == Init /\ [][Next]_vars

\* ------------------------------------ mobile core: host threads, by statement
\* The mobile core's exported functions take no lock: a host that calls them
\* from several threads runs their statements interleaved.  Each step below
\* is one access to the package-level txClient / backupTxClients.

ConcUnchanged == UNCHANGED <<core, opened, lastSwitch, now, ret, call, twin>>

\* the thread that is in state t moves to state th; threads that are in the
\* same state are interchangeable, so threads counts the threads per state
SetThread(t, th) == threads' = (threads (-) SetToBag({t})) (+) SetToBag({th})

\* a thread finished its function with this error string; its arguments
\* and locals are gone
Finish(th, res) ==
  [th EXCEPT !.pc = "done", !.res = res, !.apiKeyIndex = 0, !.made = NilClient]

\* CreateClient as it would start under a registry lock that a CheckClient
\* waiting for the remote service keeps
T_CreateClient_enter_locked(t) ==
  /\ t.pc = "idle"
  /\ \A u \in BagToSet(threads) : u.pc # "ck_wait"
  /\ \E apiKeyIndex \in {0}, accountIndex \in AccountArgs :
       LET th == [IdleThread EXCEPT !.op = "CreateClient",
                                    !.apiKeyIndex = apiKeyIndex] IN
       IF accountIndex <= 0
       THEN SetThread(t, Finish(th, "invalid account index"))
       ELSE SetThread(t, [th EXCEPT !.pc = "cc_new"])
  /\ UNCHANGED <<txClient, backupTxClients, nextId>>
  /\ ConcUnchanged

\* CreateClient: the accountIndex check, before any access to the registry.
\* The threads open their clients in slot 0, so that they compete for one
\* entry of the map; they switch to and verify every slot of InRangeSlots.
T_CreateClient_enter(t) ==
  /\ t.pc = "idle"
  /\ \E apiKeyIndex \in {0}, accountIndex \in AccountArgs :
       LET th == [IdleThread EXCEPT !.op = "CreateClient",
                                    !.apiKeyIndex = apiKeyIndex] IN
       IF accountIndex <= 0
       THEN SetThread(t, Finish(th, "invalid account index"))
       ELSE SetThread(t, [th EXCEPT !.pc = "cc_new"])
  /\ UNCHANGED <<txClient, backupTxClients, nextId>>
  /\ ConcUnchanged

\* CreateClient: txClient, err = client.NewTxClient(...)
T_CreateClient_assign(t) ==
  /\ t.pc = "cc_new"
  /\ nextId <= MaxSessions
  /\ \E privateKey \in PrivateKeys :
       LET th == t
           n  == NewTxClient(nextId, privateKey, 1, Uint8(th.apiKeyIndex)) IN
       /\ txClient' = n.client
       /\ IF n.err # ""
          THEN /\ SetThread(t, Finish(th, "error occurred when creating TxClient. err: "
                                            \o n.err))
               /\ nextId' = nextId
          ELSE /\ SetThread(t, [th EXCEPT !.pc = "cc_store", !.made = n.client])
               /\ nextId' = nextId + 1
  /\ UNCHANGED backupTxClients
  /\ ConcUnchanged

\* CreateClient: backupTxClients[apiKeyIndex] = txClient, a second read of
\* txClient; filedOwn: the value filed is the client this call constructed
T_CreateClient_store(t) ==
  /\ t.pc = "cc_store"
  /\ backupTxClients' = MapSet(backupTxClients, t.apiKeyIndex, txClient)
  /\ SetThread(t, Finish([t EXCEPT !.filedOwn = (txClient = t.made),
                                             !.made = NilClient], ""))
  /\ UNCHANGED <<txClient, nextId>>
  /\ ConcUnchanged

\* SwitchAPIKey: txClient = backupTxClients[apiKeyIndex]
T_SwitchAPIKey_assign(t) ==
  /\ t.pc = "idle"
  /\ \E apiKeyIndex \in InRangeSlots :
       /\ txClient' = MapGet(backupTxClients, apiKeyIndex)
       /\ SetThread(t, [IdleThread EXCEPT !.op = "SwitchAPIKey", !.pc = "sw_test"])
  /\ UNCHANGED <<backupTxClients, nextId>>
  /\ ConcUnchanged

\* SwitchAPIKey: if txClient == nil
T_SwitchAPIKey_test(t) ==
  /\ t.pc = "sw_test"
  /\ SetThread(t, Finish(t,
                         IF txClient = NilClient
                         THEN "no client initialized for api key" ELSE ""))
  /\ UNCHANGED <<txClient, backupTxClients, nextId>>
  /\ ConcUnchanged

\* SignCancelOrder: if txClient == nil
T_SignCancelOrder_test(t) ==
  /\ t.pc = "idle"
  /\ LET th == [IdleThread EXCEPT !.op = "SignCancelOrder"] IN
     IF txClient = NilClient
     THEN SetThread(t, Finish(th, MobileStateErr))
     ELSE SetThread(t, [th EXCEPT !.pc = "b_sign"])
  /\ UNCHANGED <<txClient, backupTxClients, nextId>>
  /\ ConcUnchanged

\* SignCancelOrder: txClient.GetCancelOrderTransaction(txInfo, ops), a second
\* read of txClient; on a nil client the call panics and recover() leaves the
\* function with a nil *TxResult
T_SignCancelOrder_sign(t) ==
  /\ t.pc = "b_sign"
  /\ LET th == t IN
     IF txClient = NilClient
     THEN SetThread(t, Finish([th EXCEPT !.panicked = TRUE], ""))
     ELSE SetThread(t, Finish([th EXCEPT
            !.inMap = \E k \in DOMAIN backupTxClients :
                         backupTxClients[k] = txClient], ""))
  /\ UNCHANGED <<txClient, backupTxClients, nextId>>
  /\ ConcUnchanged

\* CheckClient: client, ok := backupTxClients[apiKeyIndex] and the two
\* comparisons; the thread then holds the client in a local variable (made)
\* and calls client.HTTP().GetApiKey, where it waits for the remote service
T_CheckClient_lookup(t) ==
  /\ t.pc = "idle"
  /\ \E apiKeyIndex \in InRangeSlots, accountIndex \in {0, 1} :
       LET th == [IdleThread EXCEPT !.op = "CheckClient",
                                    !.apiKeyIndex = apiKeyIndex] IN
       IF apiKeyIndex \notin DOMAIN backupTxClients
       THEN SetThread(t, Finish(th, "api key not registered"))
       ELSE LET client == backupTxClients[apiKeyIndex] IN
         IF client.apiKeyIndex # Uint8(apiKeyIndex)
              \/ client.accountIndex # accountIndex
         THEN SetThread(t, Finish(th,
                CheckClient(txClient, backupTxClients, apiKeyIndex, accountIndex,
                            [err |-> "timeout", ApiKeys |-> <<>>]).res.Error))
         ELSE SetThread(t, [th EXCEPT !.pc = "ck_wait", !.made = client])
  /\ UNCHANGED <<txClient, backupTxClients, nextId>>
  /\ ConcUnchanged

\* CheckClient: GetApiKey returns (a reply or an error, the only way out of
\* the wait) and the public keys are compared, on the client read before
T_CheckClient_reply(t) ==
  /\ t.pc = "ck_wait"
  /\ \E reply \in RemoteReplies :
       LET th == t
           o  == CheckClient(txClient, MapSet(EmptyMap, th.apiKeyIndex, th.made),
                             th.apiKeyIndex, th.made.accountIndex, reply) IN
       SetThread(t, Finish([th EXCEPT !.panicked = o.panicked, !.made = NilClient],
                           o.res.Error))
  /\ UNCHANGED <<txClient, backupTxClients, nextId>>
  /\ ConcUnchanged

\* the function returns to the host thread
T_Return(t) ==
  /\ t.pc = "done"
  /\ SetThread(t, IdleThread)
  /\ UNCHANGED <<txClient, backupTxClients, nextId>>
  /\ ConcUnchanged

InitConc == Init /\ core = "mobile"

NextConc ==
  \/ \E t \in BagToSet(threads) : T_CreateClient_enter(t)
  \/ \E t \in BagToSet(threads) : T_CreateClient_assign(t)
  \/ \E t \in BagToSet(threads) : T_CreateClient_store(t)
  \/ \E t \in BagToSet(threads) : T_SwitchAPIKey_assign(t)
  \/ \E t \in BagToSet(threads) : T_SwitchAPIKey_test(t)
  \/ \E t \in BagToSet(threads) : T_SignCancelOrder_test(t)
  \/ \E t \in BagToSet(threads) : T_SignCancelOrder_sign(t)
  \/ \E t \in BagToSet(threads) : T_CheckClient_lookup(t)
  \/ \E t \in BagToSet(threads) : T_CheckClient_reply(t)
  \/ \E t \in BagToSet(threads) : T_Return(t)

SpecConc == InitConc /\ [][NextConc]_vars


\* ------------------------------------------- the two cores, fed the same calls
\* The mobile core works on txClient / backupTxClients, the wasm core on the
\* twin; each step hands both the same call with all its arguments, and a
\* client constructed in the step gets the same address in both.

\* what the step leaves behind: o from the mobile function, w from the wasm one
PairApply(op, args, o, w) ==
  /\ txClient' = o.txClient
  /\ backupTxClients' = o.backupTxClients
  /\ ret' = [op |-> op, args |-> args, res |-> o.res, panicked |-> o.panicked]
  /\ call' = o.call
  /\ twin' = [txClient |-> w.txClient, backupTxClients |-> w.backupTxClients,
              res |-> w.res]
  /\ UNCHANGED <<core, lastSwitch, now, threads>>

P_CreateClient ==
  /\ Idle
  /\ \E privateKey \in PrivateKeys, apiKeyIndex \in InRangeSlots,
        accountIndex \in AccountArgs :
       LET o == CreateClient(txClient, backupTxClients, nextId, privateKey,
                             apiKeyIndex, accountIndex)
           w == createClient(twin.txClient, twin.backupTxClients, nextId, 5,
                             privateKey, apiKeyIndex, accountIndex)
           allocated == o.txClient.id = nextId \/ w.txClient.id = nextId
       IN /\ allocated => nextId <= MaxSessions
          /\ PairApply("CreateClient",
                       [apiKeyIndex |-> apiKeyIndex, accountIndex |-> accountIndex,
                        privateKey |-> privateKey], o, w)
          /\ nextId' = IF allocated THEN nextId + 1 ELSE nextId
          /\ opened' = (opened \/ Succeeded(o.res))

P_SwitchAPIKey ==
  /\ Idle
  /\ \E apiKeyIndex \in InRangeSlots :
       PairApply("SwitchAPIKey", [apiKeyIndex |-> apiKeyIndex],
                 SwitchAPIKey(txClient, backupTxClients, apiKeyIndex),
                 switchAPIKey(twin.txClient, twin.backupTxClients, 1, apiKeyIndex))
  /\ UNCHANGED <<nextId, opened>>

P_SignCancelOrder ==
  /\ Idle
  /\ \E nonce \in Nonces, eng \in EngineOutcomes :
       PairApply("SignCancelOrder", [nonce |-> nonce],
                 SignCancelOrder(txClient, backupTxClients, 1, 1, nonce, eng),
                 signCancelOrder(twin.txClient, twin.backupTxClients, 3, 1, 1,
                                 nonce, eng))
  /\ UNCHANGED <<nextId, opened>>

\* both hosts take their results
P_Return ==
  /\ ret # NoOp
  /\ ret' = NoOp
  /\ call' = NoCall
  /\ twin' = [twin EXCEPT !.res = NoTwin.res]
  /\ UNCHANGED <<txClient, backupTxClients, nextId, opened>>
  /\ UNCHANGED <<core, lastSwitch, now, threads>>

NextPair == P_CreateClient \/ P_SwitchAPIKey \/ P_SignCancelOrder \/ P_Return

\* the mobile core starts as in InitConc, the twin as the wasm core starts
SpecPair == InitConc /\ [][NextPair]_vars


\* ================================================================ claims
CreateOps == {"CreateClient", "createClient"}
CheckOps  == {"CheckClient", "checkClient"}
SwitchOps == {"SwitchAPIKey", "switchAPIKey"}
TxOps     == {"SignChangePubKey", "SignCreateOrder", "SignCreateGroupedOrders",
              "SignCancelOrder", "SignWithdraw", "SignCreateSubAccount",
              "SignCancelAllOrders", "SignModifyOrder", "SignTransfer",
              "SignCreatePublicPool", "SignUpdatePublicPool", "SignMintShares",
              "SignBurnShares", "SignUpdateLeverage", "SignUpdateMargin",
              "signChangePubKey", "signCreateOrder", "signCreateGroupedOrders",
              "signCancelOrder", "signWithdraw", "signCreateSubAccount",
              "signCancelAllOrders", "signModifyOrder", "signTransfer",
              "signCreatePublicPool", "signUpdatePublicPool", "signMintShares",
              "signBurnShares", "signUpdateLeverage", "signUpdateMargin"}
AuthOps   == {"CreateAuthToken", "createAuthToken"}
BuildOps  == TxOps \cup AuthOps

\* the key under which a core files the slot a host passes
SlotKey(k) == IF core = "mobile" THEN k ELSE Uint8(k)

\* the step is one run of an operation in ops
Ran(ops) == Idle /\ ret'.op \in ops

\* the wasm script passed every argument the operation reads
AllArgs(r, need) == "argc" \in DOMAIN r.args => r.args.argc >= need

\* C1: in every reachable state the active client is unset or is one of the
\* clients stored in the slot table.
C1_ActiveInMapping ==
  \/ txClient = NilClient
  \/ \E k \in DOMAIN backupTxClients : backupTxClients[k] = txClient

\* C1 witness: two slots are registered and a switch made the older one active
C1_Witness ==
  /\ Cardinality(DOMAIN backupTxClients) >= 2
  /\ ret.op \in SwitchOps /\ Succeeded(ret.res)
  /\ txClient # NilClient /\ txClient.id < nextId - 1

\* C2 (as stated): a switch to a slot that is not in the slot table returns a
\* non-empty error and leaves the active client as it was.
C2_UnknownSwitchKeepsActive ==
  [][(Ran(SwitchOps) /\ AllArgs(ret', 1)
       /\ SlotKey(ret'.args.apiKeyIndex) \notin DOMAIN backupTxClients)
      => (~ret'.res.isNil /\ ret'.res.Error # "" /\ txClient' = txClient)]_vars

\* C3 (as stated): an operation in which a fault was contained still hands the
\* host a result, and that result carries a non-empty error.
C3_FaultYieldsError ==
  ret.panicked => (~ret.res.isNil /\ ret.res.Error # "")

\* C4: CreateClient with accountIndex <= 0 returns a non-empty error and
\* leaves the slot table and the active client as they were.
C4_BadAccountRejected ==
  [][(Ran(CreateOps) /\ ret'.args.accountIndex <= 0)
      => (/\ ~ret'.res.isNil /\ ret'.res.Error # ""
          /\ txClient' = txClient
          /\ backupTxClients' = backupTxClients)]_vars

\* C4 witness: the call was rejected for its account index while a client
\* opened earlier is registered and active
C4_Witness ==
  /\ ret.op \in CreateOps /\ ret.args.accountIndex <= 0
  /\ ret.res.Error = "invalid account index"
  /\ txClient # NilClient /\ DOMAIN backupTxClients # {}

\* the StateError message of a core's builders
StateErrorMessage == IF core = "mobile" THEN MobileStateErr ELSE WasmStateErr

\* C5 (as stated): a builder (any of the 15 transaction kinds, or the auth
\* token) run before any CreateClient succeeded returns the StateError
\* message, the same one for every kind, and makes no engine call.
C5_StateErrorBeforeOpen ==
  (ret.op \in BuildOps /\ ~opened)
    => (~ret.res.isNil /\ ret.res.Error = StateErrorMessage /\ call = NoCall)

\* C6 (as stated): host threads that run registry operations and builders at
\* once see no partly updated registry: a CreateClient that succeeded filed
\* the client it constructed (no lost insertion), and a builder that found a
\* client set signs with a client, one that is in the slot table.
C6_NoPartialRegistry ==
  \A th \in BagToSet(threads) :
    th.pc = "done" =>
      /\ (th.op = "CreateClient" /\ th.res = "") => th.filedOwn
      /\ (th.op = "SignCancelOrder" /\ th.res # MobileStateErr)
           => (~th.panicked /\ th.inMap)

\* what the Expo binding hands to the script for a mobile result:
\* "json": result?.json ?? "", "error": result?.error ?? ""
ExpoEnvelope(res) ==
  [json |-> IF res.isNil THEN <<>> ELSE res.JSON,
   error |-> IF res.isNil THEN "" ELSE res.Error,
   privateKey |-> IF res.isNil THEN "" ELSE res.PrivateKey,
   publicKey |-> IF res.isNil THEN "" ELSE res.PublicKey]

\* the payload of an envelope is empty
NoPayload(e) == e.json = <<>> /\ e.privateKey = "" /\ e.publicKey = ""

\* C7 (as stated): every key-pair or transaction result has error and
\* payload mutually exclusive: a non-empty error comes with an empty payload,
\* an empty error with a non-empty payload.
C7_ErrorXorPayload ==
  ret.op \in BuildOps \cup KeyPairOps
    => LET e == ExpoEnvelope(ret.res)
       IN (e.error # "" => NoPayload(e)) /\ (e.error = "" => ~NoPayload(e))

\* C8: while the last registry operation is a successful switch to slot k,
\* every engine call of a builder is made on the client stored at slot k.
C8_SwitchThenBuild ==
  (lastSwitch # <<>> /\ call # NoCall)
    => /\ SlotKey(lastSwitch[1]) \in DOMAIN backupTxClients
       /\ call[1].handle = backupTxClients[SlotKey(lastSwitch[1])]

\* C8 witness: a builder signed with a client that the switch, not the last
\* CreateClient, made active
C8_Witness ==
  /\ lastSwitch # <<>> /\ call # NoCall /\ ret.op \in BuildOps
  /\ Cardinality(DOMAIN backupTxClients) >= 2
  /\ call[1].handle.id < nextId - 1

\* C9: a successful CreateClient files the newly constructed client under its
\* slot, replacing what was there, leaves every other slot as it was, and
\* makes the new client the active one.
C9_OpenStoresAndActivates ==
  [][(Ran(CreateOps) /\ Succeeded(ret'.res))
      => LET k == SlotKey(ret'.args.apiKeyIndex) IN
         /\ txClient' = [id |-> nextId, apiKeyIndex |-> Uint8(ret'.args.apiKeyIndex),
                         accountIndex |-> ret'.args.accountIndex,
                         privateKey |-> ret'.args.privateKey]
         /\ DOMAIN backupTxClients' = (DOMAIN backupTxClients) \cup {k}
         /\ backupTxClients'[k] = txClient'
         /\ \A j \in (DOMAIN backupTxClients) \ {k} :
              backupTxClients'[j] = backupTxClients[j]]_vars

\* C9 witness: the new client replaced an older one at its slot while another
\* slot kept its client
C9_Witness ==
  /\ ret.op \in CreateOps /\ Succeeded(ret.res)
  /\ Cardinality(DOMAIN backupTxClients) >= 2
  /\ txClient.id = 3
  /\ backupTxClients[SlotKey(ret.args.apiKeyIndex)] = txClient

\* C10 (as stated): CheckClient reports success only if a client is stored at
\* the slot, its recorded slot (8 bits wide) and account index equal the
\* arguments, the remote lookup succeeded and the remote public key equals
\* the local one; a missing slot yields the StateError.
C10_VerifySound ==
  (ret.op \in CheckOps /\ AllArgs(ret, 2))
    => LET k     == SlotKey(ret.args.apiKeyIndex)
           reply == ret.args.reply
       IN /\ (~ret.res.isNil /\ ret.res.Error = "")
               => /\ k \in DOMAIN backupTxClients
                  /\ backupTxClients[k].apiKeyIndex = Uint8(ret.args.apiKeyIndex)
                  /\ backupTxClients[k].accountIndex = ret.args.accountIndex
                  /\ reply.err = "" /\ Len(reply.ApiKeys) > 0
                  /\ reply.ApiKeys[1] = "pub-" \o backupTxClients[k].privateKey
          /\ k \notin DOMAIN backupTxClients
               => ret.res.Error = "api key not registered"

\* C11: every transaction builder that reaches the engine hands it options
\* with no nonce override when the caller's nonce is -1 and with exactly the
\* caller's nonce otherwise (other negative values included); the engine is
\* never handed -1 as a nonce.
C11_NonceSentinel ==
  (ret.op \in TxOps /\ call # NoCall)
    => /\ call[1].ops.Nonce = IF ret.args.nonce = -1 THEN <<>>
                              ELSE <<ret.args.nonce>>
       /\ call[1].ops.Nonce # <<-1>>

\* C11 witness: a builder handed the engine the negative nonce -2 as it came
C11_Witness ==
  /\ ret.op \in TxOps /\ call # NoCall
  /\ ret.args.nonce = -2 /\ call[1].ops.Nonce = <<-2>>

TransferOps == {"SignTransfer", "signTransfer"}

\* C12: with a client active, a transfer whose memo is not exactly 32 bytes
\* long returns the memo error with an empty document and makes no engine
\* call; with a 32-byte memo the request handed to the engine carries those
\* 32 bytes, each as it came.
C12_MemoLength ==
  (ret.op \in TransferOps /\ txClient # NilClient /\ AllArgs(ret, 5))
    => IF Len(ret.args.memo) # 32
       THEN /\ ~ret.res.isNil
            /\ ret.res.Error = "memo expected to be 32 bytes long"
            /\ ret.res.JSON = <<>>
            /\ call = NoCall
       ELSE /\ call # NoCall
            /\ Len(call[1].req.Memo) = 32
            /\ \A i \in 1 .. 32 :
                 call[1].req.Memo[i] = SubSeq(ret.args.memo, i, i)

\* C12 witness: a 31-byte memo was rejected while a client is active
C12_Witness ==
  /\ ret.op \in TransferOps /\ txClient # NilClient
  /\ Len(ret.args.memo) = 31
  /\ ret.res.Error = "memo expected to be 32 bytes long" /\ call = NoCall

ChangePubKeyOps == {"SignChangePubKey", "signChangePubKey"}

\* the hex string of n bytes
HexOfLen(n) == "0x" \o Rep("a", 2 * n)

\* C13: with a client active, a change of public key whose hex string decodes
\* to 0, 39 or 41 bytes returns the pub-key-length error, which names the
\* length found, and makes no engine call.
C13_PubKeyLength ==
  (ret.op \in ChangePubKeyOps /\ txClient # NilClient /\ AllArgs(ret, 2))
    => \A n \in {0, 39, 41} :
         ret.args.pubKey = HexOfLen(n)
           => /\ ~ret.res.isNil
              /\ ret.res.Error = "invalid pub key length. expected 40 but got "
                                   \o ToString(n)
              /\ ret.res.JSON = <<>>
              /\ call = NoCall

\* C13 witness: a 39-byte key was rejected while a client is active
C13_Witness ==
  /\ ret.op \in ChangePubKeyOps /\ txClient # NilClient
  /\ ret.args.pubKey = HexOfLen(39)
  /\ ret.res.Error = "invalid pub key length. expected 40 but got 39"
  /\ call = NoCall

\* C14: the document of a successful builder carries the auxiliary
\* MessageToSign field, holding the engine's signature body of the signed
\* transaction, exactly when the kind is ChangePubKey or Transfer; the
\* auth-token result never carries it.
C14_MessageToSign ==
  (ret.op \in BuildOps /\ Succeeded(ret.res))
    => LET doc == ret.res.JSON[1] IN
       IF ret.op \in AuthOps THEN "MessageToSign" \notin DOMAIN doc
       ELSE IF ret.op \in ChangePubKeyOps \cup TransferOps
       THEN doc.MessageToSign = <<GetL1SignatureBody(doc.tx)>>
       ELSE doc.MessageToSign = <<>>

\* C14 witness: a successful transfer whose document carries the message
C14_Witness ==
  /\ ret.op \in TransferOps /\ Succeeded(ret.res)
  /\ ret.res.JSON[1].MessageToSign = <<"l1-body-of-GetTransferTransaction">>

CreateOrderOps == {"SignCreateOrder", "signCreateOrder"}

\* C15: a create-order call with orderExpiry = -1 hands the engine the clock
\* value of the moment of the call plus 28 days, in milliseconds; with any
\* other orderExpiry the engine receives the caller's value.
C15_DefaultExpiry ==
  (ret.op \in CreateOrderOps /\ call # NoCall)
    => call[1].req.OrderExpiry =
         IF ret.args.orderExpiry = -1 THEN now + 28 * 24 * HourMs
         ELSE ret.args.orderExpiry

\* C15 witness: the default expiry was resolved after the clock had advanced
\* past its value at process start
C15_Witness ==
  /\ ret.op \in CreateOrderOps /\ call # NoCall
  /\ ret.args.orderExpiry = -1 /\ now > 0
  /\ call[1].req.OrderExpiry = now + 28 * 24 * HourMs

\* C16: an auth-token call with deadline = 0 hands the engine the clock value
\* of the moment of the call plus 7 hours, in whole seconds; with any other
\* deadline it hands over the caller's value; on success the result's json is
\* the token the engine returned for that call.
C16_DefaultDeadline ==
  (ret.op \in AuthOps /\ call # NoCall)
    => /\ call[1].req.Deadline =
            IF ret.args.deadline = 0 THEN (now + 7 * HourMs) \div 1000
            ELSE ret.args.deadline
       /\ Succeeded(ret.res) => ret.res.JSON = <<[token |-> SignedTx(call)]>>

\* C16 witness: a token was issued with the default deadline after the clock
\* had advanced by a fraction of a second past a whole one
C16_Witness ==
  /\ ret.op \in AuthOps /\ Succeeded(ret.res)
  /\ ret.args.deadline = 0 /\ now % 1000 # 0
  /\ call[1].req.Deadline = (now + 7 * HourMs) \div 1000

GroupedOps == {"SignCreateGroupedOrders", "signCreateGroupedOrders"}

\* the 1-based positions of the sub-orders that lack a mandatory field
Lacking(orders) ==
  {i \in 1 .. Len(orders) :
     \E j \in 1 .. Len(RequiredFields) : RequiredFields[j] \notin DOMAIN orders[i]}

\* C17: with a client active, a grouped-orders call one of whose sub-orders
\* lacks a mandatory field returns the error naming the first such
\* sub-order's index (from 0) and a field it lacks, and makes no engine call,
\* however many valid sub-orders come before it.
C17_MissingField ==
  (/\ ret.op \in GroupedOps /\ txClient # NilClient /\ AllArgs(ret, 3)
   /\ ret.args.ordersJSON.valid
   /\ Lacking(ret.args.ordersJSON.orders) # {})
    => LET orders == ret.args.ordersJSON.orders
           i == CHOOSE x \in Lacking(orders) : \A y \in Lacking(orders) : x <= y
       IN /\ ~ret.res.isNil
          /\ \E j \in 1 .. Len(RequiredFields) :
               /\ RequiredFields[j] \notin DOMAIN orders[i]
               /\ ret.res.Error = "order " \o ToString(i - 1) \o ": "
                                    \o RequiredFields[j] \o " is required"
          /\ ret.res.JSON = <<>>
          /\ call = NoCall

\* C17 witness: the second sub-order lacks its price, the first one is whole
C17_Witness ==
  /\ ret.op \in GroupedOps /\ txClient # NilClient
  /\ Len(ret.args.ordersJSON.orders) = 2
  /\ Lacking(ret.args.ordersJSON.orders) = {2}
  /\ ret.res.Error = "order 1: price is required" /\ call = NoCall

\* C18: a successful switch of the active API key leaves the map of clients
\* as it was: the same slots, the same client at each slot; the active
\* client afterwards is one of the clients the map held before the call.
C18_SwitchFrame ==
  [][(Ran(SwitchOps) /\ Succeeded(ret'.res))
       => /\ backupTxClients' = backupTxClients
          /\ \E k \in DOMAIN backupTxClients : txClient' = backupTxClients[k]]_vars

\* C18 witness: a switch succeeded between two filled slots and made the
\* client of the other slot the active one
C18_Witness ==
  /\ ret.op \in SwitchOps /\ Succeeded(ret.res)
  /\ Cardinality(DOMAIN backupTxClients) >= 2
  /\ lastSwitch # <<>>
  /\ \E k \in DOMAIN backupTxClients :
       txClient = backupTxClients[k] /\ txClient.id # nextId - 1

\* the key pair a result carries
KeyPair(res) == <<res.PrivateKey, res.PublicKey>>

\* the result of generating a key pair from seed before anything else was
\* called, with the first random draw
FirstGenerated(op, seed) ==
  IF op = "GenerateAPIKey"
  THEN GenerateAPIKey(NilClient, EmptyMap, seed, 1).res
  ELSE generateAPIKey(NilClient, EmptyMap, seed, 1).res

\* C19: a key pair generated from a non-empty seed, in whatever state of the
\* registry and whatever the random source draws, is the pair the same seed
\* gives in the first call, with an empty error; with the empty seed the
\* curve library is given no seed and the pair is one it samples.
C19_SeedDeterminism ==
  (ret.op \in KeyPairOps)
    => /\ Succeeded(ret.res)
       /\ ret.args.seed # ""
            => KeyPair(ret.res) = KeyPair(FirstGenerated(ret.op, ret.args.seed))
       /\ ret.args.seed = ""
            => \E rnd \in Rnds :
                 ret.res.PrivateKey = hexutilEncode(SampleScalar(<<>>, rnd))

\* C19 witness: a seeded generation with clients registered and one active,
\* after the clock has advanced
C19_Witness ==
  /\ ret.op \in KeyPairOps /\ ret.args.seed # ""
  /\ txClient # NilClient /\ Cardinality(DOMAIN backupTxClients) >= 2
  /\ now > 0
  /\ ret.res.PrivateKey # "" /\ ret.res.PublicKey # ""

\* the *TxResult a mobile builder returns, as the platform binding exposes it:
\* an object with the properties json and error, or no object at all (nil)
MobileTxResult(res) ==
  IF res.isNil THEN <<>> ELSE [json |-> res.JSON, error |-> res.Error]

\* the dictionary the Expo module returns for a mobile builder's result:
\* ["json": result?.json ?? "", "error": result?.error ?? ""]
ExpoTxResult(res) ==
  [json |-> IF res.isNil THEN <<>> ELSE res.JSON,
   error |-> IF res.isNil THEN "" ELSE res.Error]

\* the value a wasm builder returns to the script: js.ValueOf of a map with
\* the keys "str" and "err", or with "err" alone, or null
WasmTxValue(res) ==
  [k \in res.keys |-> IF k = "str" THEN res.JSON ELSE res.Error]

\* the results of the last operation as each binding of the running core
\* hands them to its host
HostResults ==
  IF core = "mobile" THEN {MobileTxResult(ret.res), ExpoTxResult(ret.res)}
  ELSE {WasmTxValue(ret.res)}

\* C20 (as stated): whatever binding a transaction builder or the auth-token
\* operation is called through, the host receives a record with exactly the
\* fields json and error, and an empty error comes with a non-empty json.
C20_SameEnvelope ==
  ret.op \in BuildOps
    => \A e \in HostResults :
         /\ DOMAIN e = {"json", "error"}
         /\ e.error = "" => e.json # <<>>

\* the messages with which the builders of the running core report that no
\* client is active (the margin builder spells its own with a capital)
StateErrors ==
  {StateErrorMessage, "Client is not created, call CreateClient() first"}

\* C21: a builder or the auth-token operation run while no client is active
\* returns the no-client error and makes no engine call, whatever is wrong
\* with its arguments: a memo or public key of the wrong length, a sub-order
\* lacking a field, or too few arguments never shows through.
C21_StateCheckFirst ==
  (ret.op \in BuildOps /\ txClient = NilClient)
    => /\ ~ret.res.isNil
       /\ ret.res.Error \in StateErrors
       /\ ret.res.JSON = <<>>
       /\ call = NoCall

\* C21 witness: a transfer with a 31-byte memo run with no client active was
\* answered with the no-client error
C21_Witness ==
  /\ ret.op \in TransferOps /\ txClient = NilClient /\ AllArgs(ret, 5)
  /\ Len(ret.args.memo) = 31
  /\ ret.res.Error \in StateErrors

\* the string m occurs in the string s
Contains(s, m) ==
  \E i \in 1 .. Len(s) - Len(m) + 1 : SubSeq(s, i, i + Len(m) - 1) = m

\* the value recover() receives in the operation r: the runtime error of
\* key.ApiKeys[0] on an empty list, or whatever the engine panicked with
FaultMessage(r) ==
  IF r.op \in CheckOps
  THEN "runtime error: index out of range [0] with length 0"
  ELSE "engine panic"

\* C22 (as stated): the result of an operation in which a fault was contained
\* carries an error string, and the message of the fault occurs in it.
C22_FaultMessageKept ==
  ret.panicked
    => /\ ~ret.res.isNil
       /\ Contains(ret.res.Error, FaultMessage(ret))

\* C23: in a grouped-orders call that reaches the engine, every sub-order of
\* the request is defaulted on its own: reduceOnly and triggerPrice are 0
\* where the sub-order gave none and the given value otherwise; the expiry is
\* the clock at the call plus 28 days where the sub-order gave none or gave
\* -1, and the given value otherwise.
C23_PerOrderDefaults ==
  (ret.op \in GroupedOps /\ call # NoCall)
    => LET given == ret.args.ordersJSON.orders
           built == call[1].req.Orders
       IN /\ Len(built) = Len(given)
          /\ \A i \in 1 .. Len(given) :
               LET has(f) == f \in DOMAIN given[i] IN
               /\ built[i].ReduceOnly =
                    IF has("reduceOnly") THEN given[i]["reduceOnly"] ELSE 0
               /\ built[i].TriggerPrice =
                    IF has("triggerPrice") THEN given[i]["triggerPrice"] ELSE 0
               /\ built[i].OrderExpiry =
                    IF has("orderExpiry") /\ given[i]["orderExpiry"] # -1
                    THEN given[i]["orderExpiry"]
                    ELSE now + 28 * 24 * HourMs

\* C23 witness: after the clock advanced, one request holds a sub-order with
\* its own expiry and options next to one that gave none of them
C23_Witness ==
  /\ ret.op \in GroupedOps /\ call # NoCall /\ now > 0
  /\ Len(call[1].req.Orders) = 2
  /\ "orderExpiry" \notin DOMAIN ret.args.ordersJSON.orders[1]
  /\ call[1].req.Orders[1].OrderExpiry = now + 28 * 24 * HourMs
  /\ call[1].req.Orders[1].ReduceOnly = 0
  /\ call[1].req.Orders[2].OrderExpiry = 1700000000
  /\ call[1].req.Orders[2].ReduceOnly = 1

\* the next statement of the operation a thread in state u is in can be
\* taken; a CreateClient can construct a client as long as the session bound
\* allows
Runnable(u) ==
  /\ u.pc = "idle" => /\ ENABLED T_CreateClient_enter(u)
                      /\ ENABLED T_SwitchAPIKey_assign(u)
                      /\ ENABLED T_SignCancelOrder_test(u)
                      /\ ENABLED T_CheckClient_lookup(u)
  /\ (u.pc = "cc_new" /\ nextId <= MaxSessions) => ENABLED T_CreateClient_assign(u)
  /\ u.pc = "cc_store" => ENABLED T_CreateClient_store(u)
  /\ u.pc = "sw_test" => ENABLED T_SwitchAPIKey_test(u)
  /\ u.pc = "b_sign" => ENABLED T_SignCancelOrder_sign(u)
  /\ u.pc = "ck_wait" => ENABLED T_CheckClient_reply(u)
  /\ u.pc = "done" => ENABLED T_Return(u)

\* a thread in state t is inside CheckClient, waiting for the remote service
Waiting(t) == t.pc = "ck_wait"

\* the step is a statement of a CheckClient: a thread leaves the wait, or an
\* idle thread enters CheckClient
CheckStep ==
  \E t \in BagToSet(threads) :
    /\ CopiesIn(t, threads') < CopiesIn(t, threads)
    /\ \/ Waiting(t)
       \/ /\ t.pc = "idle"
          /\ \E n \in BagToSet(threads') :
               /\ n.op = "CheckClient"
               /\ CopiesIn(n, threads') > CopiesIn(n, threads)

\* C24: while a host thread waits inside CheckClient for the remote service,
\* every other thread can take the next statement of its CreateClient,
\* SwitchAPIKey, builder or CheckClient, up to its return; and no statement
\* of CheckClient changes the map of clients or the active client.
C24_VerifyHoldsNoLock ==
  /\ [](\A t \in BagToSet(threads) :
          Waiting(t) => \A u \in BagToSet(threads (-) SetToBag({t})) : Runnable(u))
  /\ [][CheckStep => UNCHANGED <<txClient, backupTxClients>>]_vars

\* C24 witness: while one thread waits inside CheckClient, another has run a
\* CreateClient to its end and filed a new client in the slot being verified
C24_Witness ==
  \E t, u \in BagToSet(threads) :
    /\ Waiting(t)
    /\ u.pc = "done" /\ u.op = "CreateClient" /\ u.res = "" /\ u.filedOwn
    /\ backupTxClients[t.apiKeyIndex] # t.made

\* C25 (as stated): a CreateClient that returns an error, whatever the
\* reason, leaves the map of clients and the active client as they were.
C25_FailedOpenKeepsRegistry ==
  [][(Ran(CreateOps) /\ ~Succeeded(ret'.res))
       => /\ backupTxClients' = backupTxClients
          /\ txClient' = txClient]_vars

\* C26 (as stated): once a CreateClient has succeeded a client is active in
\* every later state, and no builder returns the no-client error.
C26_ActiveStaysSet ==
  opened => /\ txClient # NilClient
            /\ ret.op \in BuildOps => ret.res.Error \notin StateErrors

\* C27 (as stated): every client in the map is filed under the slot it was
\* constructed with, whatever integer the host passed as the slot.
C27_FiledUnderOwnSlot ==
  \A k \in DOMAIN backupTxClients : backupTxClients[k].apiKeyIndex = k

\* C28: a run of a builder, of the auth-token operation or of the key-pair
\* generation leaves the map of clients and the active client as they were,
\* whether it succeeds, rejects its arguments, or the engine fails.
C28_BuildersReadOnly ==
  [][Ran(BuildOps \cup KeyPairOps)
       => /\ backupTxClients' = backupTxClients
          /\ txClient' = txClient]_vars

\* C28 witness: the engine refused a builder's request while two clients are
\* filed and one of them is active
C28_Witness ==
  /\ ret.op \in BuildOps /\ call # NoCall /\ ret.res.Error = EngineErr
  /\ txClient # NilClient /\ Cardinality(DOMAIN backupTxClients) >= 2
  /\ \E k \in DOMAIN backupTxClients : backupTxClients[k] = txClient

\* C29 (as stated): a mobile core and a wasm core fed the same CreateClient,
\* SwitchAPIKey and builder calls with slots in 0 .. 255 agree after every
\* call: both succeed or both fail, their maps have the same slots, and the
\* same slot is active in both (or none in both).
C29_CoresAgree ==
  /\ ret # NoOp => (Succeeded(ret.res) <=> Succeeded(twin.res))
  /\ DOMAIN backupTxClients = DOMAIN twin.backupTxClients
  /\ (txClient = NilClient) <=> (twin.txClient = NilClient)
  /\ txClient.apiKeyIndex = twin.txClient.apiKeyIndex

====
